---- MODULE Spec2Model ----
(***************************************************************************)
(* Data Alchemist: the validation / auto-fix engine of ValidationPanel.tsx *)
(* and the allocation simulator / optimizer of aiService.ts.               *)
(*                                                                         *)
(* JavaScript values are tagged records (string, number, NaN, undefined);  *)
(* a string is the sequence of its characters, so that split, trim,        *)
(* toLowerCase, parseInt, template literals and JSON.parse are computed    *)
(* on the characters as the code computes them.                            *)
(***************************************************************************)
EXTENDS Integers, Sequences, FiniteSets, TLC

(***************************************************************************)
(* JavaScript values                                                       *)
(***************************************************************************)
Str(s) == [t |-> "str", s |-> s, n |-> 0]
Num(n) == [t |-> "num", s |-> <<>>, n |-> n]
NaN == [t |-> "nan", s |-> <<>>, n |-> 0]
Undef == [t |-> "undef", s |-> <<>>, n |-> 0]
\* an array value, with its items
Arr(items) == [t |-> "arr", s |-> items, n |-> 0]

\* ToBoolean: "", 0, NaN and undefined are falsy
Truthy(v) ==
    \/ v.t = "str" /\ v.s # <<>>
    \/ v.t = "num" /\ v.n # 0
    \/ v.t = "arr"

\* a || b
Or(a, b) == IF Truthy(a) THEN a ELSE b

\* item[field]: undefined when the row has no such key
Get(item, f) == IF f \in DOMAIN item THEN item[f] ELSE Undef

\* item[field] = v on a row (adds the key when the row lacks it)
Put(item, f, v) ==
    [k \in (DOMAIN item) \cup {f} |-> IF k = f THEN v ELSE item[k]]

(***************************************************************************)
(* Characters and strings                                                  *)
(***************************************************************************)
DigitChars == <<"0", "1", "2", "3", "4", "5", "6", "7", "8", "9">>
UpperChars == <<"A", "B", "C", "D", "E", "F", "G", "H", "I", "J", "K", "L", "M",
                "N", "O", "P", "Q", "R", "S", "T", "U", "V", "W", "X", "Y", "Z">>
LowerChars == <<"a", "b", "c", "d", "e", "f", "g", "h", "i", "j", "k", "l", "m",
                "n", "o", "p", "q", "r", "s", "t", "u", "v", "w", "x", "y", "z">>

IsDigit(c) == \E i \in DOMAIN DigitChars : DigitChars[i] = c
DigitVal(c) == (CHOOSE i \in DOMAIN DigitChars : DigitChars[i] = c) - 1
IsSpace(c) == c = " "

LowerChar(c) ==
    IF \E i \in DOMAIN UpperChars : UpperChars[i] = c
    THEN LowerChars[CHOOSE i \in DOMAIN UpperChars : UpperChars[i] = c]
    ELSE c

\* String.prototype.toLowerCase
ToLowerCase(s) == [i \in DOMAIN s |-> LowerChar(s[i])]

RECURSIVE TrimStart(_)
TrimStart(s) ==
    IF s # <<>> /\ IsSpace(Head(s)) THEN TrimStart(Tail(s)) ELSE s

RECURSIVE TrimEnd(_)
TrimEnd(s) ==
    IF s # <<>> /\ IsSpace(s[Len(s)]) THEN TrimEnd(SubSeq(s, 1, Len(s) - 1)) ELSE s

\* String.prototype.trim
Trim(s) == TrimEnd(TrimStart(s))

\* String.prototype.split(sep) for a one-character separator
RECURSIVE SplitFrom(_, _, _)
SplitFrom(s, sep, cur) ==
    IF s = <<>> THEN <<cur>>
    ELSE IF Head(s) = sep THEN <<cur>> \o SplitFrom(Tail(s), sep, <<>>)
    ELSE SplitFrom(Tail(s), sep, Append(cur, Head(s)))

Split(s, sep) == SplitFrom(s, sep, <<>>)

\* Number.prototype.toString for integers (template literals, parseInt(number))
RECURSIVE NatDigits(_)
NatDigits(n) ==
    IF n < 10 THEN <<DigitChars[n + 1]>>
    ELSE Append(NatDigits(n \div 10), DigitChars[(n % 10) + 1])

IntToString(n) == IF n < 0 THEN <<"-">> \o NatDigits(-n) ELSE NatDigits(n)

\* the value of the longest prefix of decimal digits of s, after acc
RECURSIVE DigitsValue(_, _)
DigitsValue(s, acc) ==
    IF s # <<>> /\ IsDigit(Head(s))
    THEN DigitsValue(Tail(s), acc * 10 + DigitVal(Head(s)))
    ELSE acc

\* parseInt on the characters: leading white space, a sign, decimal digits
ParseIntChars(s) ==
    LET t == TrimStart(s)
        neg == t # <<>> /\ Head(t) = "-"
        u == IF t # <<>> /\ Head(t) \in {"-", "+"} THEN Tail(t) ELSE t
    IN  IF u = <<>> \/ ~IsDigit(Head(u)) THEN NaN
        ELSE Num(IF neg THEN -DigitsValue(u, 0) ELSE DigitsValue(u, 0))

\* parseInt(v): the argument is converted to a string first
ParseInt(v) ==
    CASE v.t = "str" -> ParseIntChars(v.s)
      [] v.t = "num" -> ParseIntChars(IntToString(v.n))
      [] OTHER -> NaN

\* ToNumber(v) as Math.min and the arithmetic operators apply it
\* (decimal integers; other strings give NaN, the empty string gives 0)
ToNumber(v) ==
    CASE v.t = "num" -> v
      [] v.t = "str" ->
            LET t == Trim(v.s)
                u == IF t # <<>> /\ Head(t) \in {"-", "+"} THEN Tail(t) ELSE t
            IN  IF t = <<>> THEN Num(0)
                ELSE IF u # <<>> /\ \A i \in DOMAIN u : IsDigit(u[i])
                     THEN ParseIntChars(t)
                     ELSE NaN
      [] OTHER -> NaN

Min(a, b) == IF a < b THEN a ELSE b
Max(a, b) == IF a > b THEN a ELSE b

(***************************************************************************)
(* JSON.parse: only whether it throws is observed.  The recognizer covers  *)
(* objects, arrays, strings without escapes, integers and the literals     *)
(* true, false, null.  Each operator returns the position after what it    *)
(* read, or 0 when the text is malformed.                                  *)
(***************************************************************************)
RECURSIVE SkipWs(_, _)
SkipWs(s, i) == IF i <= Len(s) /\ IsSpace(s[i]) THEN SkipWs(s, i + 1) ELSE i

RECURSIVE SkipDigits(_, _)
SkipDigits(s, i) == IF i <= Len(s) /\ IsDigit(s[i]) THEN SkipDigits(s, i + 1) ELSE i

HasAt(s, i, lit) ==
    /\ i + Len(lit) - 1 <= Len(s)
    /\ SubSeq(s, i, i + Len(lit) - 1) = lit

\* a string literal opening at i (s[i] is the quote): position after the closing quote
RECURSIVE JsonStringEnd(_, _)
JsonStringEnd(s, i) ==
    IF i > Len(s) THEN 0
    ELSE IF s[i] = "\"" THEN i + 1
    ELSE JsonStringEnd(s, i + 1)

JsonNumberEnd(s, i) ==
    LET j == IF i <= Len(s) /\ s[i] = "-" THEN i + 1 ELSE i
    IN  IF j > Len(s) \/ ~IsDigit(s[j]) THEN 0
        ELSE IF s[j] = "0" THEN j + 1
        ELSE SkipDigits(s, j)

RECURSIVE JsonValueEnd(_, _)
RECURSIVE JsonMembersEnd(_, _)
RECURSIVE JsonElementsEnd(_, _)

JsonValueEnd(s, i0) ==
    LET i == SkipWs(s, i0)
    IN  IF i > Len(s) THEN 0
        ELSE IF s[i] = "{" THEN
            (LET j == SkipWs(s, i + 1)
             IN  IF j <= Len(s) /\ s[j] = "}" THEN j + 1 ELSE JsonMembersEnd(s, j))
        ELSE IF s[i] = "[" THEN
            (LET j == SkipWs(s, i + 1)
             IN  IF j <= Len(s) /\ s[j] = "]" THEN j + 1 ELSE JsonElementsEnd(s, j))
        ELSE IF s[i] = "\"" THEN JsonStringEnd(s, i + 1)
        ELSE IF HasAt(s, i, <<"t", "r", "u", "e">>) THEN i + 4
        ELSE IF HasAt(s, i, <<"f", "a", "l", "s", "e">>) THEN i + 5
        ELSE IF HasAt(s, i, <<"n", "u", "l", "l">>) THEN i + 4
        ELSE JsonNumberEnd(s, i)

\* "key" : value ( , "key" : value )* }
JsonMembersEnd(s, i) ==
    IF i > Len(s) \/ s[i] # "\"" THEN 0
    ELSE LET k == JsonStringEnd(s, i + 1)
             c == IF k = 0 THEN 0 ELSE SkipWs(s, k)
         IN  IF k = 0 \/ c > Len(s) \/ s[c] # ":" THEN 0
             ELSE LET v == JsonValueEnd(s, c + 1)
                      e == IF v = 0 THEN 0 ELSE SkipWs(s, v)
                  IN  IF v = 0 \/ e > Len(s) THEN 0
                      ELSE IF s[e] = "}" THEN e + 1
                      ELSE IF s[e] = "," THEN JsonMembersEnd(s, SkipWs(s, e + 1))
                      ELSE 0

\* value ( , value )* ]
JsonElementsEnd(s, i) ==
    LET v == JsonValueEnd(s, i)
        e == IF v = 0 THEN 0 ELSE SkipWs(s, v)
    IN  IF v = 0 \/ e > Len(s) THEN 0
        ELSE IF s[e] = "]" THEN e + 1
        ELSE IF s[e] = "," THEN JsonElementsEnd(s, e + 1)
        ELSE 0

\* JSON.parse(v) returns (TRUE) or throws a SyntaxError (FALSE)
JsonParses(v) ==
    LET s == IF v.t = "num" THEN IntToString(v.n) ELSE v.s
        e == JsonValueEnd(s, 1)
    IN  e # 0 /\ SkipWs(s, e) = Len(s) + 1


(***************************************************************************)
(* Findings (ValidationResult).  A template literal is kept as the tuple   *)
(* of its fixed text and the values interpolated into it; details and      *)
(* suggestion are display text and are left out.                           *)
(***************************************************************************)
NoField == "none"

Finding(id, type, category, message, entityType, entityId, field, canAutoFix) ==
    [id |-> id, type |-> type, category |-> category, message |-> message,
     entityType |-> entityType, entityId |-> entityId, field |-> field,
     canAutoFix |-> canAutoFix]

\* `row-${index}` for the 0-based index of a row
RowId(index) == Str(<<"r", "o", "w", "-">> \o IntToString(index))

\* the characters of a string value; any other value has no split method
StrChars(v) == CASE v.t = "str" -> v.s

\* the concatenation of the sequences f[1], ..., f[n]
RECURSIVE FlatMap(_, _)
FlatMap(f, n) == IF n = 0 THEN <<>> ELSE FlatMap(f, n - 1) \o f[n]

\* Array.prototype.filter
RECURSIVE SelectIdx(_, _, _)
SelectIdx(s, keep, n) ==
    IF n = 0 THEN <<>>
    ELSE IF keep[n] THEN Append(SelectIdx(s, keep, n - 1), s[n])
    ELSE SelectIdx(s, keep, n - 1)

IdField(entityType) ==
    IF entityType = "clients" THEN "ClientID"
    ELSE IF entityType = "workers" THEN "WorkerID"
    ELSE "TaskID"

requiredFields(entityType) ==
    IF entityType = "clients" THEN <<"ClientID", "ClientName", "PriorityLevel">>
    ELSE IF entityType = "workers"
         THEN <<"WorkerID", "WorkerName", "Skills", "AvailableSlots">>
    ELSE <<"TaskID", "TaskName", "Duration", "RequiredSkills">>

validateMissingColumns(entityType, items) ==
    IF Len(items) = 0 THEN <<>>
    ELSE LET required == requiredFields(entityType)
             headers == DOMAIN items[1]
         IN  FlatMap([k \in DOMAIN required |->
                        IF required[k] \in headers THEN <<>>
                        ELSE <<Finding(<<"missing", entityType, required[k]>>,
                                       "error", "Missing Required Column",
                                       <<"Missing required column: ", required[k]>>,
                                       entityType, Str(<<"s", "t", "r", "u", "c", "t", "u", "r", "e">>),
                                       required[k], FALSE)>>],
                     Len(required))

\* the Map of validateDuplicateIDs: a key is reported at the position of its
\* first row, when more than one row holds it
validateDuplicateIDs(entityType, items) ==
    LET idField == IdField(entityType)
        id(i) == Get(items[i], idField)
        first(i) == Truthy(id(i)) /\ \A j \in 1..(i - 1) : id(j) # id(i)
        indices(i) == {j \in DOMAIN items : id(j) = id(i)}
    IN  FlatMap([i \in DOMAIN items |->
                   IF first(i) /\ Cardinality(indices(i)) > 1
                   THEN <<Finding(<<"duplicate", entityType, id(i)>>,
                                  "error", "Duplicate ID",
                                  <<"Duplicate ", idField, id(i)>>,
                                  entityType, id(i), idField, TRUE)>>
                   ELSE <<>>],
                Len(items))

RangeFinding(tag, entityType, item, index, idField, field) ==
    Finding(<<tag, entityType, index>>, "error", "Out-of-range Value",
            <<"Invalid ", field, Get(item, field)>>,
            entityType, Or(Get(item, idField), RowId(index)), field, TRUE)

validateDataTypes(entityType, items) ==
    LET perItem(i) ==
            LET item == items[i]
                index == i - 1
                priority == ParseInt(Get(item, "PriorityLevel"))
                duration == ParseInt(Get(item, "Duration"))
                maxLoad == ParseInt(Get(item, "MaxLoadPerPhase"))
            IN  (IF /\ entityType = "clients" /\ Truthy(Get(item, "PriorityLevel"))
                    /\ (priority = NaN \/ priority.n < 1 \/ priority.n > 5)
                 THEN <<RangeFinding("invalid-priority", entityType, item, index,
                                     "ClientID", "PriorityLevel")>>
                 ELSE <<>>)
                \o
                (IF /\ entityType = "tasks" /\ Truthy(Get(item, "Duration"))
                    /\ (duration = NaN \/ duration.n < 1)
                 THEN <<RangeFinding("invalid-duration", entityType, item, index,
                                     "TaskID", "Duration")>>
                 ELSE <<>>)
                \o
                (IF /\ entityType = "workers" /\ Truthy(Get(item, "MaxLoadPerPhase"))
                    /\ (maxLoad = NaN \/ maxLoad.n < 1)
                 THEN <<RangeFinding("invalid-maxload", entityType, item, index,
                                     "WorkerID", "MaxLoadPerPhase")>>
                 ELSE <<>>)
                \o
                (IF /\ Truthy(Get(item, "AttributesJSON"))
                    /\ ~JsonParses(Get(item, "AttributesJSON"))
                 THEN <<Finding(<<"invalid-json", entityType, index>>,
                                "error", "Broken JSON",
                                <<"Invalid JSON in AttributesJSON">>,
                                entityType,
                                Or(Or(Or(Get(item, "ClientID"), Get(item, "WorkerID")),
                                      Get(item, "TaskID")), RowId(index)),
                                "AttributesJSON", TRUE)>>
                 ELSE <<>>)
    IN  FlatMap([i \in DOMAIN items |-> perItem(i)], Len(items))

\* s.split(',').map(x => x.trim())
SplitTrim(s) == LET parts == Split(s, ",") IN [k \in DOMAIN parts |-> Trim(parts[k])]

\* s.split(',').map(x => x.trim().toLowerCase())
SplitTrimLower(s) ==
    LET parts == Split(s, ",") IN [k \in DOMAIN parts |-> ToLowerCase(Trim(parts[k]))]

validateReferences(store) ==
    LET taskIDs == {Get(store.tasks[j], "TaskID") : j \in DOMAIN store.tasks}
                       \ {v \in {Get(store.tasks[j], "TaskID") : j \in DOMAIN store.tasks} :
                             ~Truthy(v)}
        perClient(i) ==
            LET client == store.clients[i]
                index == i - 1
            IN  IF ~Truthy(Get(client, "RequestedTaskIDs")) THEN <<>>
                ELSE LET requestedTasks == SplitTrim(StrChars(Get(client, "RequestedTaskIDs")))
                         invalidTasks ==
                             SelectIdx(requestedTasks,
                                       [k \in DOMAIN requestedTasks |->
                                           requestedTasks[k] # <<>>
                                           /\ Str(requestedTasks[k]) \notin taskIDs],
                                       Len(requestedTasks))
                     IN  [k \in DOMAIN invalidTasks |->
                            Finding(<<"invalid-task-ref", Get(client, "ClientID"), invalidTasks[k]>>,
                                    "error", "Unknown Reference",
                                    <<"Unknown TaskID: ", invalidTasks[k]>>,
                                    "clients", Or(Get(client, "ClientID"), RowId(index)),
                                    "RequestedTaskIDs", TRUE)]
    IN  FlatMap([i \in DOMAIN store.clients |-> perClient(i)], Len(store.clients))

\* a variant of WorkerSkillSet: the workers' skills are not lower-cased
WorkerSkillSetAsTyped(workers) ==
    UNION {IF Truthy(Get(workers[i], "Skills"))
           THEN LET skills == SplitTrim(StrChars(Get(workers[i], "Skills")))
                IN  {skills[k] : k \in DOMAIN skills}
           ELSE {} : i \in DOMAIN workers}

\* the Set of skills that validateSkillCoverage collects from the workers
WorkerSkillSet(workers) ==
    UNION {IF Truthy(Get(workers[i], "Skills"))
           THEN LET skills == SplitTrimLower(StrChars(Get(workers[i], "Skills")))
                IN  {skills[k] : k \in DOMAIN skills}
           ELSE {} : i \in DOMAIN workers}

validateSkillCoverage(store) ==
    LET workerSkills == WorkerSkillSet(store.workers)
        perTask(i) ==
            LET task == store.tasks[i]
                index == i - 1
            IN  IF ~Truthy(Get(task, "RequiredSkills")) THEN <<>>
                ELSE LET requiredSkills == SplitTrimLower(StrChars(Get(task, "RequiredSkills")))
                         uncoveredSkills ==
                             SelectIdx(requiredSkills,
                                       [k \in DOMAIN requiredSkills |->
                                           requiredSkills[k] # <<>>
                                           /\ requiredSkills[k] \notin workerSkills],
                                       Len(requiredSkills))
                     IN  [k \in DOMAIN uncoveredSkills |->
                            Finding(<<"uncovered-skill", Get(task, "TaskID"), uncoveredSkills[k]>>,
                                    "warning", "Skill Coverage",
                                    <<"No worker has skill: ", uncoveredSkills[k]>>,
                                    "tasks", Or(Get(task, "TaskID"), RowId(index)),
                                    "RequiredSkills", FALSE)]
    IN  FlatMap([i \in DOMAIN store.tasks |-> perTask(i)], Len(store.tasks))

generateAISuggestions(store) ==
    LET highPriorityClients ==
            {i \in DOMAIN store.clients :
                LET p == ParseInt(Get(store.clients[i], "PriorityLevel"))
                IN  p # NaN /\ p.n >= 4}
        lowSkillWorkers ==
            {i \in DOMAIN store.workers :
                \/ ~Truthy(Get(store.workers[i], "Skills"))
                \/ Len(Split(StrChars(Get(store.workers[i], "Skills")), ",")) <= 2}
        analysis == Str(<<"a", "n", "a", "l", "y", "s", "i", "s">>)
    IN  (IF 2 * Cardinality(highPriorityClients) > Len(store.workers)
         THEN <<Finding(<<"ai-too-many-high-priority">>, "info", "AI Insight",
                        <<"High ratio of high-priority clients">>,
                        "clients", analysis, NoField, FALSE)>>
         ELSE <<>>)
        \o
        (IF 10 * Cardinality(lowSkillWorkers) > 3 * Len(store.workers)
         THEN <<Finding(<<"ai-skill-diversity">>, "info", "AI Insight",
                        <<"Low skill diversity among workers">>,
                        "workers", analysis, NoField, FALSE)>>
         ELSE <<>>)

(***************************************************************************)
(* runValidation: six check steps, each followed by an await, then the     *)
(* publication of the accumulated list.                                    *)
(***************************************************************************)
totalSteps == 7

\* a variant of StepResults: the data type checks run before the duplicate
\* checks
StepResultsTypesFirst(k, store) ==
    CASE k = 1 -> validateMissingColumns("clients", store.clients)
                  \o validateMissingColumns("workers", store.workers)
                  \o validateMissingColumns("tasks", store.tasks)
      [] k = 2 -> validateDataTypes("clients", store.clients)
                  \o validateDataTypes("workers", store.workers)
                  \o validateDataTypes("tasks", store.tasks)
      [] k = 3 -> validateDuplicateIDs("clients", store.clients)
                  \o validateDuplicateIDs("workers", store.workers)
                  \o validateDuplicateIDs("tasks", store.tasks)
      [] k = 4 -> validateReferences(store)
      [] k = 5 -> validateSkillCoverage(store)
      [] k = 6 -> generateAISuggestions(store)

\* what step k of runValidation pushes onto allResults, reading the store
StepResults(k, store) ==
    CASE k = 1 -> validateMissingColumns("clients", store.clients)
                  \o validateMissingColumns("workers", store.workers)
                  \o validateMissingColumns("tasks", store.tasks)
      [] k = 2 -> validateDuplicateIDs("clients", store.clients)
                  \o validateDuplicateIDs("workers", store.workers)
                  \o validateDuplicateIDs("tasks", store.tasks)
      [] k = 3 -> validateDataTypes("clients", store.clients)
                  \o validateDataTypes("workers", store.workers)
                  \o validateDataTypes("tasks", store.tasks)
      [] k = 4 -> validateReferences(store)
      [] k = 5 -> validateSkillCoverage(store)
      [] k = 6 -> generateAISuggestions(store)

\* v.split(',') raises a TypeError: the cell passed the truthiness test in
\* front of the call and is not a string
SplitRaises(v) == Truthy(v) /\ v.t # "str"

\* step k of runValidation raises when it reads the store: the checks that
\* call .split on a cell do so outside any try block
StepThrows(k, store) ==
    CASE k = 4 -> \E i \in DOMAIN store.clients :
                      SplitRaises(Get(store.clients[i], "RequestedTaskIDs"))
      [] k = 5 -> \/ \E i \in DOMAIN store.workers :
                         SplitRaises(Get(store.workers[i], "Skills"))
                  \/ \E i \in DOMAIN store.tasks :
                         SplitRaises(Get(store.tasks[i], "RequiredSkills"))
      [] k = 6 -> \E i \in DOMAIN store.workers :
                      SplitRaises(Get(store.workers[i], "Skills"))
      [] OTHER -> FALSE

\* the list a pass publishes when the store does not change under it
RunValidation(store) ==
    FlatMap([k \in 1..(totalSteps - 1) |-> StepResults(k, store)], totalSteps - 1)

(***************************************************************************)
(* autoFixIssue: the store after the fix of one finding                    *)
(***************************************************************************)
\* `${v}` in a template literal
TemplateChars(v) ==
    CASE v.t = "str" -> v.s
      [] v.t = "num" -> IntToString(v.n)
      [] v.t = "nan" -> <<"N", "a", "N">>
      [] OTHER -> <<"u", "n", "d", "e", "f", "i", "n", "e", "d">>

\* a variant of RenamedId: the suffix is the 0-based index
RenamedIdZeroBased(entityId, index) ==
    Str(TemplateChars(entityId) \o <<"_">> \o IntToString(index))

\* `${result.entityId}_${index + 1}` for the 0-based index of a row
RenamedId(entityId, index) ==
    Str(TemplateChars(entityId) \o <<"_">> \o IntToString(index + 1))

FixDuplicateID(items, result) ==
    LET idField == IdField(result.entityType)
    IN  [i \in DOMAIN items |->
            IF Get(items[i], idField) = result.entityId
            THEN Put(items[i], idField, RenamedId(result.entityId, i - 1))
            ELSE items[i]]

\* the position of the row entityArray.find() returns, 0 when it finds none
FindItem(items, entityId) ==
    LET key(i) == Or(Or(Get(items[i], "ClientID"), Get(items[i], "WorkerID")),
                     Get(items[i], "TaskID"))
        hits == {i \in DOMAIN items : key(i) = entityId}
    IN  IF hits = {} THEN 0 ELSE CHOOSE i \in hits : \A j \in hits : i <= j

\* Math.max(1, Math.min(5, parseInt(v) || 3))
ClampPriority(v) == Num(Max(1, Min(5, Or(ParseInt(v), Num(3)).n)))

\* Math.max(1, parseInt(v) || 1)
ClampPositive(v) == Num(Max(1, Or(ParseInt(v), Num(1)).n))

FixOutOfRange(items, result) ==
    LET at == FindItem(items, result.entityId)
    IN  IF at = 0 \/ result.field = NoField THEN items
        ELSE IF result.field = "PriorityLevel"
             THEN [items EXCEPT ![at] = Put(@, result.field, ClampPriority(Get(@, result.field)))]
        ELSE IF result.field \in {"Duration", "MaxLoadPerPhase"}
             THEN [items EXCEPT ![at] = Put(@, result.field, ClampPositive(Get(@, result.field)))]
        ELSE items

FixBrokenJSON(items, result) ==
    LET at == FindItem(items, result.entityId)
    IN  IF at = 0 \/ result.field = NoField THEN items
        ELSE [items EXCEPT ![at] = Put(@, result.field, Str(<<"{", "}">>))]

\* the rows of the three collections after autoFixIssue(result); a finding
\* that is not auto-fixable returns before anything is touched, and a
\* category without a branch (Unknown Reference) changes no row
AutoFixStore(store, result) ==
    IF ~result.canAutoFix THEN store
    ELSE IF result.category = "Duplicate ID"
         THEN [store EXCEPT ![result.entityType] = FixDuplicateID(@, result)]
    ELSE IF result.category = "Out-of-range Value"
         THEN [store EXCEPT ![result.entityType] = FixOutOfRange(@, result)]
    ELSE IF result.category = "Broken JSON"
         THEN [store EXCEPT ![result.entityType] = FixBrokenJSON(@, result)]
    ELSE store

\* the three collections of a store
EntityTypes == {"clients", "workers", "tasks"}

\* `const newData = { ...data }`: the array each property of the new object
\* refers to, the arrays of data being named by their property; the spread
\* copies the three references, not the arrays or their rows
SpreadRefs == [e \in EntityTypes |-> e]

\* the arrays after autoFixIssue(result): the branches assign to the rows of
\* newData[result.entityType] in place
ArraysAfter(store, result) ==
    [a \in EntityTypes |->
        IF a = SpreadRefs[result.entityType]
        THEN AutoFixStore(store, result)[result.entityType]
        ELSE store[a]]

\* what the store object handed to autoFixIssue reads as after the call
GivenStoreAfter(store, result) == [e \in EntityTypes |-> ArraysAfter(store, result)[e]]

(***************************************************************************)
(* The stores the model starts from.  Every family varies one collection   *)
(* of the end-to-end scenario (one client requesting T1,T2, one worker     *)
(* with skill coding, tasks T1: coding and T2: design).                    *)
(***************************************************************************)
MaxRows == 3

\* a row with the keys whose value is given (a value Undef leaves the key out)
MkRow(f) == [k \in {k \in DOMAIN f : f[k] # Undef} |-> f[k]]

\* all sequences over S of length at most n
SeqsUpTo(S, n) == UNION {[1..k -> S] : k \in 0..n}

sCoding == <<"c", "o", "d", "i", "n", "g">>
sDesign == <<"d", "e", "s", "i", "g", "n">>
sSlots == <<"[", "1", ",", "2", "]">>

ClientRow(id, priority, requested, json) ==
    MkRow([ClientID |-> id, ClientName |-> Str(<<"A">>), PriorityLevel |-> priority,
           RequestedTaskIDs |-> requested, AttributesJSON |-> json])

WorkerRow(id, skills, maxLoad, json) ==
    MkRow([WorkerID |-> id, WorkerName |-> Str(<<"B">>), Skills |-> skills,
           AvailableSlots |-> Str(sSlots), MaxLoadPerPhase |-> maxLoad,
           AttributesJSON |-> json])

TaskRow(id, skills, duration, json) ==
    MkRow([TaskID |-> id, TaskName |-> Str(<<"N">>), RequiredSkills |-> skills,
           Duration |-> duration, AttributesJSON |-> json])

\* the end-to-end scenario of the README sample
Client0 == ClientRow(Str(<<"C", "1">>), Str(<<"5">>), Str(<<"T", "1", ",", "T", "2">>), Undef)
Worker0 == WorkerRow(Str(<<"W", "1">>), Str(sCoding), Num(2), Undef)
Task1 == TaskRow(Str(<<"T", "1">>), Str(sCoding), Str(<<"1">>), Undef)
Task2 == TaskRow(Str(<<"T", "2">>), Str(sDesign), Str(<<"1">>), Undef)
Store0 == [clients |-> <<Client0>>, workers |-> <<Worker0>>, tasks |-> <<Task1, Task2>>]

WithClients(cs) == [Store0 EXCEPT !.clients = cs]
WithWorkers(ws) == [Store0 EXCEPT !.workers = ws]
WithTasks(ts) == [Store0 EXCEPT !.tasks = ts]

\* primary keys: a key, the key a rename of it produces, and an empty cell
WorkerIds == {Str(<<"W", "1">>), Str(<<"W", "1", "_", "2">>), Str(<<>>)}
TaskIds == {Str(<<"T", "1">>), Str(<<"T", "1", "_", "2">>)}

DuplicateStores ==
    {WithWorkers([i \in DOMAIN ids |-> WorkerRow(ids[i], Str(sCoding), Num(2), Undef)]) :
        ids \in SeqsUpTo(WorkerIds, MaxRows)}
    \cup
    {WithTasks([i \in DOMAIN ids |-> TaskRow(ids[i], Str(sCoding), Str(<<"1">>), Undef)]) :
        ids \in SeqsUpTo(TaskIds, MaxRows)}

\* numeric cells: in range, above, zero as text and as a number, negative, not a number
PriorityCells == {Str(<<"3">>), Str(<<"9">>), Str(<<"0">>), Str(<<"a", "b", "c">>), Num(7), Num(0)}
PositiveCells == {Str(<<"2">>), Str(<<"0">>), Str(<<"-", "2">>), Str(<<"a", "b", "c">>), Num(0)}
ClientIds == {Str(<<"C", "1">>), Str(<<>>)}

RangeClients ==
    {ClientRow(id, p, Str(<<"T", "1">>), Undef) : id \in ClientIds, p \in PriorityCells}

RangeStores ==
    {WithClients(<<a>>) : a \in RangeClients}
    \cup {WithClients(<<a, b>>) :
            a \in RangeClients,
            b \in {ClientRow(Str(<<"C", "1">>), Str(<<"9">>), Str(<<"T", "1">>), Undef),
                   ClientRow(Str(<<>>), Str(<<"a", "b", "c">>), Str(<<"T", "1">>), Undef)}}
    \cup {WithWorkers(<<WorkerRow(Str(<<"W", "1">>), Str(sCoding), m, Undef)>>) : m \in PositiveCells}
    \cup {WithTasks(<<Task1, TaskRow(Str(<<"T", "2">>), Str(sDesign), d, Undef)>>) : d \in PositiveCells}

JsonCells ==
    {Undef, Str(<<"{", "}">>), Str(<<"{", "b", "a", "d">>),
     Str(<<"{", "\"", "a", "\"", ":", "1", "}">>), Num(5)}

JsonStores ==
    {WithClients(<<ClientRow(id, Str(<<"5">>), Str(<<"T", "1">>), j)>>) :
        id \in ClientIds, j \in JsonCells}
    \cup {WithClients(<<ClientRow(Str(<<"C", "1">>), Str(<<"5">>), Str(<<"T", "1">>), j),
                       ClientRow(Str(<<"C", "1">>), Str(<<"5">>), Str(<<"T", "1">>), k)>>) :
            j \in {Undef, Str(<<"{", "}">>), Str(<<"{", "b", "a", "d">>)},
            k \in {Str(<<"{", "}">>), Str(<<"{", "b", "a", "d">>)}}
    \cup {WithWorkers(<<WorkerRow(Str(<<"W", "1">>), Str(sCoding), Num(2), j)>>) : j \in JsonCells}
    \cup {WithTasks(<<Task1, TaskRow(Str(<<"T", "2">>), Str(sDesign), Str(<<"1">>), j)>>) :
            j \in JsonCells}

RequestCells ==
    {Undef, Str(<<>>), Str(<<"T", "1", ",", "T", "2">>), Str(<<"T", "1", ",", " ", "T", "9">>),
     Str(<<"T", "9">>), Str(<<"T", "9", ",", ",", "T", "8">>), Str(<<"t", "1">>)}

ReferenceStores ==
    {WithClients(<<ClientRow(id, Str(<<"5">>), r, Undef)>>) : id \in ClientIds, r \in RequestCells}
    \cup {[clients |-> <<ClientRow(Str(<<"C", "1">>), Str(<<"5">>), r, Undef)>>,
           workers |-> <<Worker0>>, tasks |-> <<>>] : r \in RequestCells}

SkillCells ==
    {Undef, Str(<<>>), Str(sCoding), Str(sDesign),
     Str(<<"C", "o", "d", "i", "n", "g", " ", ",", " ", "D", "E", "S", "I", "G", "N">>),
     Str(sCoding \o <<",", ",">> \o sDesign), Str(sDesign \o <<",">> \o sDesign)}

SkillStores ==
    {[clients |-> <<Client0>>,
      workers |-> <<WorkerRow(Str(<<"W", "1">>), w, Num(2), Undef)>>,
      tasks |-> <<Task1, TaskRow(t.id, t.skills, Str(<<"1">>), Undef)>>] :
        w \in SkillCells, t \in [id : {Str(<<"T", "2">>), Str(<<>>)}, skills : SkillCells]}
    \cup {[clients |-> <<Client0>>, workers |-> <<>>, tasks |-> <<Task1, Task2>>]}

\* a first row without a required column, and empty collections
StructureStores ==
    {[clients |-> <<>>, workers |-> <<>>, tasks |-> <<>>],
     WithClients(<<[ClientID |-> Str(<<"C", "1">>), RequestedTaskIDs |-> Str(<<"T", "1">>)]>>),
     WithWorkers(<<[WorkerID |-> Str(<<"W", "1">>), Skills |-> Str(sCoding)]>>),
     WithTasks(<<[TaskName |-> Str(<<"N">>), RequiredSkills |-> Str(sCoding)], Task2>>),
     WithClients(<<Client0, Client0, Client0>>)}

\* cells of an unexpected type, as a spreadsheet upload delivers them: a
\* number where a comma-joined list is expected
NumericCells == {Num(5), Num(0)}

MalformedStores ==
    {WithClients(<<ClientRow(Str(<<"C", "1">>), Str(<<"5">>), r, Undef)>>) : r \in NumericCells}
    \cup {WithWorkers(<<WorkerRow(Str(<<"W", "1">>), s, Num(2), Undef)>>) : s \in NumericCells}
    \cup {WithTasks(<<Task1, TaskRow(Str(<<"T", "2">>), s, Str(<<"1">>), Undef)>>) :
            s \in NumericCells}

\* rows with findings of several categories: a broken JSON cell in front of
\* an out-of-range cell, in one collection and across collections
sBadJson == <<"{", "b", "a", "d">>

MixedStores ==
    {WithClients(<<ClientRow(Str(<<"C", "1">>), Str(<<"5">>), Str(<<"T", "1">>), Str(sBadJson)),
                   ClientRow(Str(<<"C", "2">>), Str(<<"9">>), Str(<<"T", "3">>), Undef)>>),
     [clients |-> <<ClientRow(Str(<<"C", "1">>), Str(<<"9">>), Str(<<"T", "1">>), Str(sBadJson))>>,
      workers |-> <<WorkerRow(Str(<<"W", "1">>), Str(sCoding), Str(<<"0">>), Undef),
                    WorkerRow(Str(<<"W", "1">>), Str(sCoding), Num(2), Undef)>>,
      tasks |-> <<Task1, Task2>>]}

Stores ==
    DuplicateStores \cup RangeStores \cup JsonStores \cup ReferenceStores
    \cup SkillStores \cup StructureStores \cup MalformedStores \cup MixedStores

(***************************************************************************)
(* The ValidationPanel component                                           *)
(***************************************************************************)
VARIABLES
    data,               \* the data prop: clients, workers, tasks
    validationResults,  \* the published (displayed) finding list
    isValidating,       \* the flag that disables the Run Validation button
    passes,             \* the runValidation calls in flight, each at an await
    timers,             \* pending setTimeout(runValidation, 100) callbacks
    lastFix,            \* history: the last autoFixIssue call and the store it was given
    applied,            \* history: positions of validationResults fixed since publication
    published,          \* history: the last two publications and the store at each
    faulted,            \* history: a runValidation call ended in an uncaught exception
    midFixes            \* history: the autoFixIssue calls made while a validation was
                        \* running or scheduled

panelVars == <<data, validationResults, isValidating, passes, timers,
               lastFix, applied, published, faulted, midFixes>>

\* the callers of the simulator (AllocationHeatmap, BeforeAfterComparison)
VARIABLES
    sims,       \* the results of the latest (at most two) simulateAllocation calls in a row
    optimized   \* the result of optimizeAllocation, when it was the latest call

simVars == <<sims, optimized>>

\* the SmartErrorFixer component
VARIABLES
    errors,       \* the errors prop
    fixes,        \* the fixes state: what generateAutoFixes returned for errors
    applyingFix,  \* "none" for null, "all" while applyAllFixes waits, else a fix type
    fixerJobs,    \* the applyFix / applyAllFixes calls waiting at their timeout
    fixApplied    \* history: the last store handed to onFixApplied, with its batch

fixerVars == <<errors, fixes, applyingFix, fixerJobs, fixApplied>>

\* the page and its PriorityConfig component
VARIABLES
    currentStep,    \* the page's step; PriorityConfig is mounted while it is 3
    prioritiesState,  \* the priorities state of the page, set by onPrioritiesChange
    criteriaOrder,  \* PriorityConfig's criteriaOrder state
    weights,        \* PriorityConfig's weights state
    activePreset,   \* PriorityConfig's activePreset state
    changes         \* history: the number of onPrioritiesChange calls so far

priorityVars == <<currentStep, prioritiesState, criteriaOrder, weights, activePreset, changes>>

\* the page's rules and its RuleBuilder component
VARIABLES
    rulesState,            \* the rules state of the page, set by onRulesChange
    naturalLanguageInput,  \* RuleBuilder's naturalLanguageInput state
    isProcessingNL,        \* RuleBuilder's isProcessingNL state
    nlCalls,               \* the processNaturalLanguage calls waiting at their timeout
    now,                   \* Date.now(), as the number of rule ids handed out
    lastNL                 \* history: the last processNaturalLanguage call that finished

ruleVars == <<rulesState, naturalLanguageInput, isProcessingNL, nlCalls, now, lastNL>>

vars == <<data, validationResults, isValidating, passes, timers,
          lastFix, applied, published, faulted, midFixes, sims, optimized,
          errors, fixes, applyingFix, fixerJobs, fixApplied,
          currentStep, prioritiesState, criteriaOrder, weights, activePreset, changes,
          rulesState, naturalLanguageInput, isProcessingNL, nlCalls, now, lastNL>>

\* what the actions of one component leave alone
outsidePanel == <<simVars, fixerVars, priorityVars, ruleVars>>
outsideSim == <<panelVars, fixerVars, priorityVars, ruleVars>>
outsideFixer == <<panelVars, simVars, priorityVars, ruleVars>>
outsidePriority == <<panelVars, simVars, fixerVars, ruleVars>>
outsideRules == <<panelVars, simVars, fixerVars, priorityVars>>

\* a component that is not part of the behaviours of a specification
SimUnused == sims = <<>> /\ optimized = <<>>
FixerUnused ==
    /\ errors = <<>>
    /\ fixes = <<>>
    /\ applyingFix = "none"
    /\ fixerJobs = <<>>
    /\ fixApplied = <<>>

\* the ids of criteriaItems, in the order of the list
criteriaItems ==
    <<"priority_level", "task_fulfillment", "worker_fairness", "skill_matching",
      "phase_efficiency", "resource_utilization", "deadline_compliance",
      "cost_optimization">>

CriteriaIds == {criteriaItems[k] : k \in DOMAIN criteriaItems}

\* the weights object whose values are listed in the order of criteriaItems
WeightsOf(values) ==
    [id \in CriteriaIds |->
        Num(values[CHOOSE k \in DOMAIN criteriaItems : criteriaItems[k] = id])]

\* the initial priorities of the page: an object without keys
NoPriorities ==
    [weights |-> [id \in CriteriaIds |-> Undef], criteriaOrder |-> Undef,
     activePreset |-> Undef]

\* the state a PriorityConfig starts with when it is mounted under props
MountedOrder == criteriaItems
MountedWeights(props) == [id \in CriteriaIds |-> Or(props.weights[id], Num(50))]
MountedPreset == Str(<<>>)

\* a RuleBuilder that is not mounted, over the rules the page holds
RuleBuilderUnused ==
    /\ naturalLanguageInput = <<>>
    /\ isProcessingNL = FALSE
    /\ nlCalls = <<>>
    /\ now = 0
    /\ lastNL = <<>>

RulesUnused == rulesState = <<>> /\ RuleBuilderUnused

PriorityUnused ==
    /\ currentStep = 0
    /\ prioritiesState = NoPriorities
    /\ criteriaOrder = MountedOrder
    /\ weights = MountedWeights(NoPriorities)
    /\ activePreset = MountedPreset
    /\ changes = 0

RemoveAt(s, p) == [k \in 1..(Len(s) - 1) |-> IF k < p THEN s[k] ELSE s[k + 1]]

\* the last element of a history, as a sequence of at most one element
LastOf(s) == IF s = <<>> THEN <<>> ELSE <<s[Len(s)]>>

\* a variant of StartPass: allResults is seeded with the displayed list
StartPassKeepingResults(store) ==
    [pc |-> 1, allResults |-> validationResults \o StepResults(1, store), seen |-> {store}]

\* runValidation up to its first await: allResults = [] and step 1
\* seen is history: the store values the call has read through its data
StartPass(store) == [pc |-> 1, allResults |-> StepResults(1, store), seen |-> {store}]

\* the useEffect on [data] calls runValidation unless all collections are empty
EffectPasses(store) ==
    IF Len(store.clients) > 0 \/ Len(store.workers) > 0 \/ Len(store.tasks) > 0
    THEN <<StartPass(store)>>
    ELSE <<>>

PanelInit ==
    /\ data \in Stores
    /\ validationResults = <<>>
    /\ passes = EffectPasses(data)
    /\ isValidating = (passes # <<>>)
    /\ timers = 0
    /\ lastFix = <<>>
    /\ applied = {}
    /\ published = <<>>
    /\ faulted = FALSE
    /\ midFixes = 0

\* a pass resumes after an await and runs its next check on the store as it
\* is now; when the check raises, the async function rejects there: nothing
\* is published and setIsValidating(false) is never reached
\* every step of every call waits the same 200 ms, so a call is never
\* overtaken by a call that started after it
ContinuePass(p) ==
    /\ p \in DOMAIN passes
    /\ passes[p].pc < totalSteps - 1
    /\ \A q \in 1..(p - 1) : passes[q].pc > passes[p].pc
    /\ IF StepThrows(passes[p].pc + 1, data)
       THEN /\ passes' = RemoveAt(passes, p)
            /\ faulted' = TRUE
       ELSE /\ passes' = [passes EXCEPT ![p] =
                            [pc |-> @.pc + 1,
                             allResults |-> @.allResults \o StepResults(@.pc + 1, data),
                             seen |-> @.seen]]
            /\ UNCHANGED faulted
    /\ UNCHANGED <<data, validationResults, isValidating, timers, lastFix, applied, published,
                   midFixes>>
    /\ UNCHANGED outsidePanel

\* step 7: setValidationResults(allResults), setIsValidating(false)
\* a variant of Oldest: the calls finish in any order
OldestOrNot(p) == TRUE

\* the call that started first among those in flight: with equal waits it is
\* the one that finishes next
Oldest(p) == p = 1

CompletePass(p) ==
    /\ p \in DOMAIN passes
    /\ passes[p].pc = totalSteps - 1
    /\ Oldest(p)
    /\ validationResults' = passes[p].allResults
    /\ isValidating' = FALSE
    /\ passes' = RemoveAt(passes, p)
    /\ applied' = {}
    /\ published' = LastOf(published)
                    \o <<[results |-> passes[p].allResults, store |-> data,
                           seen |-> passes[p].seen]>>
    /\ UNCHANGED <<data, timers, lastFix, faulted, midFixes>>
    /\ UNCHANGED outsidePanel

\* the 100 ms timer of autoFixIssue fires: runValidation()
TimerFire ==
    /\ timers > 0
    /\ timers' = timers - 1
    /\ passes' = Append(passes, StartPass(data))
    /\ isValidating' = TRUE
    /\ UNCHANGED <<data, validationResults, lastFix, applied, published, faulted, midFixes>>
    /\ UNCHANGED outsidePanel

\* the Run Validation button, disabled while isValidating
RunValidationClick ==
    /\ ~isValidating
    /\ passes' = Append(passes, StartPass(data))
    /\ isValidating' = TRUE
    /\ UNCHANGED <<data, validationResults, timers, lastFix, applied, published, faulted,
                   midFixes>>
    /\ UNCHANGED outsidePanel

\* no validation is running or scheduled
Quiet == passes = <<>> /\ timers = 0

\* the most autoFixIssue calls a behaviour makes while a validation is
\* running or scheduled
MaxMidFixes == 1

\* the Auto Fix button of the i-th displayed finding (rendered when canAutoFix):
\* the rows are fixed, onDataChange hands the store to the parent, whose new
\* data prop runs the effect, and a re-validation is scheduled
\* the calls in flight read the rows the fix assigns to: their data holds the
\* same arrays and row objects as the store the fix hands to onDataChange
SeeingStore(calls, store) == [p \in DOMAIN calls |-> [calls[p] EXCEPT !.seen = @ \cup {store}]]

\* the Auto Fix button of a displayed finding, clicked while no validation is
\* running or scheduled
AutoFixIssue(i) ==
    /\ Quiet
    /\ UNCHANGED midFixes
    /\ i \in DOMAIN validationResults
    /\ validationResults[i].canAutoFix
    /\ data' = AutoFixStore(data, validationResults[i])
    /\ passes' = SeeingStore(passes, data') \o EffectPasses(data')
    /\ isValidating' = (isValidating \/ EffectPasses(data') # <<>>)
    /\ timers' = timers + 1
    /\ lastFix' = <<[result |-> validationResults[i], before |-> data,
                     given |-> GivenStoreAfter(data, validationResults[i])]>>
    /\ applied' = applied \cup {i}
    /\ UNCHANGED <<validationResults, published, faulted>>
    /\ UNCHANGED outsidePanel

\* a variant of ReturnsEarly: the guard is missing
NeverReturnsEarly(result) == FALSE

\* `if (!result.canAutoFix) return;`
ReturnsEarly(result) == ~result.canAutoFix

\* autoFixIssue called with the i-th displayed finding when that finding is
\* not auto-fixable (it has no Auto Fix button): the handler returns at its
\* first line, before onDataChange and before setTimeout
AutoFixIssueNotFixable(i) ==
    /\ Quiet
    /\ i \in DOMAIN validationResults
    /\ ~validationResults[i].canAutoFix
    /\ lastFix' = <<[result |-> validationResults[i], before |-> data,
                     given |-> IF ReturnsEarly(validationResults[i]) THEN data
                               ELSE GivenStoreAfter(data, validationResults[i])]>>
    /\ IF ReturnsEarly(validationResults[i])
       THEN UNCHANGED <<data, passes, isValidating, timers>>
       ELSE /\ data' = AutoFixStore(data, validationResults[i])
            /\ passes' = passes \o EffectPasses(data')
            /\ isValidating' = (isValidating \/ EffectPasses(data') # <<>>)
            /\ timers' = timers + 1
    /\ UNCHANGED <<validationResults, applied, published, faulted, midFixes>>
    /\ UNCHANGED outsidePanel

\* the Auto Fix button of a displayed finding, clicked while a validation is
\* running or scheduled: the button is never disabled
AutoFixIssueDuringPass(i) ==
    /\ ~Quiet
    /\ midFixes < MaxMidFixes
    /\ midFixes' = midFixes + 1
    /\ i \in DOMAIN validationResults
    /\ validationResults[i].canAutoFix
    /\ data' = AutoFixStore(data, validationResults[i])
    /\ passes' = SeeingStore(passes, data') \o EffectPasses(data')
    /\ isValidating' = (isValidating \/ EffectPasses(data') # <<>>)
    /\ timers' = timers + 1
    /\ lastFix' = <<[result |-> validationResults[i], before |-> data,
                     given |-> GivenStoreAfter(data, validationResults[i])]>>
    /\ applied' = applied \cup {i}
    /\ UNCHANGED <<validationResults, published, faulted>>
    /\ UNCHANGED outsidePanel

(***************************************************************************)
(* AIService: the allocation simulator and the optimizer.  Math.random()   *)
(* is an input: `draw` is the value of                                     *)
(* Math.floor(Math.random() * (compatibleTasks.length + 1)).               *)
(* A fractional number (efficiency) is an exact fraction in lowest terms.  *)
(***************************************************************************)
RECURSIVE Gcd(_, _)
Gcd(a, b) == IF b = 0 THEN a ELSE Gcd(b, a % b)

Rat(a, b) == [nan |-> FALSE, num |-> a \div Gcd(a, b), den |-> b \div Gcd(a, b)]
RatNaN == [nan |-> TRUE, num |-> 0, den |-> 1]

\* a <= b on fractions
RatLeq(a, b) == ~a.nan /\ ~b.nan /\ a.num * b.den <= b.num * a.den

\* Math.min(100, e * num / den)
RatScaleCap(e, num, den) ==
    IF e.nan THEN RatNaN
    ELSE IF e.num * num >= 100 * e.den * den THEN Rat(100, 1)
    ELSE Rat(e.num * num, e.den * den)

\* Math.min(a, b) on numbers
MathMin(a, b) ==
    LET x == ToNumber(a)
        y == ToNumber(b)
    IN  IF x = NaN \/ y = NaN THEN NaN ELSE Num(Min(x.n, y.n))

\* Array.prototype.slice(0, count)
SliceTo(s, count) ==
    IF count = NaN THEN <<>>
    ELSE IF count.n < 0 THEN SubSeq(s, 1, Max(0, Len(s) + count.n))
    ELSE SubSeq(s, 1, Min(count.n, Len(s)))

\* v?.split(",").map(s => s.trim().toLowerCase()) || []
SkillList(v) == IF v = Undef THEN <<>> ELSE SplitTrimLower(StrChars(v))

\* worker.MaxLoadPerPhase || 5
MaxLoadOf(worker) == Or(Get(worker, "MaxLoadPerPhase"), Num(5))

\* the tasks whose every required skill is one of the worker's skills
\* a variant of CompatibleTasks: one held skill is enough
CompatibleTasksSomeSkill(worker, tasks) ==
    LET workerSkills == SkillList(Get(worker, "Skills"))
        ok(i) == LET requiredSkills == SkillList(Get(tasks[i], "RequiredSkills"))
                 IN  \E k \in DOMAIN requiredSkills :
                        \E j \in DOMAIN workerSkills : workerSkills[j] = requiredSkills[k]
    IN  SelectIdx(tasks, [i \in DOMAIN tasks |-> ok(i)], Len(tasks))

CompatibleTasks(worker, tasks) ==
    LET workerSkills == SkillList(Get(worker, "Skills"))
        ok(i) == LET requiredSkills == SkillList(Get(tasks[i], "RequiredSkills"))
                 IN  \A k \in DOMAIN requiredSkills :
                        \E j \in DOMAIN workerSkills : workerSkills[j] = requiredSkills[k]
    IN  SelectIdx(tasks, [i \in DOMAIN tasks |-> ok(i)], Len(tasks))

\* a variant of simulateTaskAssignment: the last assignmentCount compatible
\* tasks are taken instead of the first
simulateTaskAssignmentFromEnd(worker, tasks, rules, draw) ==
    IF Len(tasks) = 0 THEN <<>>
    ELSE LET compatibleTasks == CompatibleTasks(worker, tasks)
             assignmentCount == MathMin(MaxLoadOf(worker), Num(draw))
             n == Len(SliceTo(compatibleTasks, assignmentCount))
             chosen == SubSeq(compatibleTasks, Len(compatibleTasks) - n + 1,
                              Len(compatibleTasks))
         IN  [k \in DOMAIN chosen |-> Or(Get(chosen[k], "TaskID"), Get(chosen[k], "TaskName"))]

simulateTaskAssignment(worker, tasks, rules, draw) ==
    IF Len(tasks) = 0 THEN <<>>
    ELSE LET compatibleTasks == CompatibleTasks(worker, tasks)
             assignmentCount == MathMin(MaxLoadOf(worker), Num(draw))
             chosen == SliceTo(compatibleTasks, assignmentCount)
         IN  [k \in DOMAIN chosen |-> Or(Get(chosen[k], "TaskID"), Get(chosen[k], "TaskName"))]

\* a variant of Efficiency: the ratio is not scaled to a percentage
EfficiencyAsRatio(workload, maxLoad) ==
    LET m == ToNumber(maxLoad)
    IN  IF m = NaN \/ (m.n = 0 /\ workload = 0) THEN RatNaN
        ELSE IF m.n = 0 THEN Rat(100, 1)
        ELSE IF m.n < 0 THEN Rat(0, 1)
        ELSE Rat(workload, m.n)

\* Math.max(0, Math.min(100, (workload / maxLoad) * 100))
Efficiency(workload, maxLoad) ==
    LET m == ToNumber(maxLoad)
    IN  IF m = NaN \/ (m.n = 0 /\ workload = 0) THEN RatNaN
        ELSE IF m.n = 0 THEN Rat(100, 1)
        ELSE IF m.n < 0 THEN Rat(0, 1)
        ELSE IF workload >= m.n THEN Rat(100, 1)
        ELSE Rat(workload * 100, m.n)

\* workload > maxLoad * 0.8: high; workload > maxLoad * 0.6: medium; else low
Stress(workload, maxLoad) ==
    LET m == ToNumber(maxLoad)
    IN  IF m = NaN THEN "low"
        ELSE IF 10 * workload > 8 * m.n THEN "high"
        ELSE IF 10 * workload > 6 * m.n THEN "medium"
        ELSE "low"

simulateAllocation(store, rules, priorities, draws) ==
    [i \in DOMAIN store.workers |->
        LET worker == store.workers[i]
            maxLoad == MaxLoadOf(worker)
            assignedTasks == simulateTaskAssignment(worker, store.tasks, rules, draws[i])
            workload == Len(assignedTasks)
        IN  [workerId |-> Get(worker, "WorkerID"),
             workerName |-> Get(worker, "WorkerName"),
             assignedTasks |-> assignedTasks,
             workload |-> workload,
             efficiency |-> Efficiency(workload, maxLoad),
             stress |-> Stress(workload, maxLoad)]]

\* the values Math.random() can give the workers of a store
Draws(store) ==
    LET count == [i \in DOMAIN store.workers |->
                    Len(CompatibleTasks(store.workers[i], store.tasks))]
    IN  {d \in [DOMAIN store.workers -> 0..Len(store.tasks)] :
            \A i \in DOMAIN store.workers : d[i] <= count[i]}

\* String.prototype.includes
Includes(s, sub) == \E i \in 1..(Len(s) + 1) : HasAt(s, i, sub)

RECURSIVE SumWorkload(_, _)
SumWorkload(rs, n) == IF n = 0 THEN 0 ELSE SumWorkload(rs, n - 1) + rs[n].workload

\* Math.round(sum / n): the nearest integer, halves rounded up
RoundDiv(sum, n) == (2 * sum + n) \div (2 * n)

\* a variant of FairWorkload: the worker's workload is multiplied by the mean
FairWorkloadScaled(result, before) ==
    result.workload * RoundDiv(SumWorkload(before, Len(before)), Len(before))

\* the `fair` branch: every worker gets the rounded mean workload of `before`
FairWorkload(result, before) == RoundDiv(SumWorkload(before, Len(before)), Len(before))

\* the `cost` branch: Math.max(1, Math.floor(result.workload * 0.8))
CostWorkload(result) == Max(1, (4 * result.workload) \div 5)

OptimizeResult(store, criteria, before, r) ==
    LET result == before[r]
        costed == IF Includes(criteria, <<"c", "o", "s", "t">>)
                  THEN [result EXCEPT !.workload = CostWorkload(result),
                                      !.efficiency = RatScaleCap(result.efficiency, 11, 10)]
                  ELSE result
        faired == IF Includes(criteria, <<"f", "a", "i", "r">>)
                  THEN [costed EXCEPT !.workload = FairWorkload(result, before)]
                  ELSE costed
        prioritized == IF Includes(criteria, <<"p", "r", "i", "o", "r", "i", "t", "y">>)
                       THEN [faired EXCEPT !.efficiency = RatScaleCap(result.efficiency, 115, 100)]
                       ELSE faired
        found == {i \in DOMAIN store.workers :
                    Get(store.workers[i], "WorkerID") = result.workerId}
        maxLoad == IF found = {} THEN Num(5)
                   ELSE MaxLoadOf(store.workers[CHOOSE i \in found : \A j \in found : i <= j])
    IN  [prioritized EXCEPT !.stress = Stress(prioritized.workload, maxLoad)]

\* optimizeAllocation: `before` is one simulateAllocation(data, [], {})
optimizeAllocation(store, criteria, draws) ==
    LET before == simulateAllocation(store, <<>>, <<>>, draws)
    IN  [criteria |-> criteria,
         before |-> before,
         after |-> [r \in DOMAIN before |-> OptimizeResult(store, criteria, before, r)]]

(***************************************************************************)
(* Callers of the simulator (AllocationHeatmap, BeforeAfterComparison)     *)
(***************************************************************************)

sW1 == <<"W", "1">>
sW2 == <<"W", "2">>

CapacityCells ==
    {Num(2), Num(1), Num(0), Num(-1), Str(<<"2">>), Str(<<"a", "b", "c">>), Undef}
WorkerSkillCells ==
    {Str(sCoding), Str(<<"C", "o", "d", "i", "n", "g", ",", " ">> \o sDesign), Undef}

SimWorkerPairs ==
    {<<WorkerRow(Str(sW1), Str(sCoding), m, Undef), WorkerRow(id, s, Num(2), Undef)>> :
        m \in {Num(2), Num(1), Num(0)}, id \in {Str(sW1), Str(sW2)},
        s \in {Str(sCoding), Str(sCoding \o <<",">> \o sDesign)}}

SimWorkerLists ==
    {<<>>}
    \cup {<<WorkerRow(Str(sW1), s, m, Undef)>> : s \in WorkerSkillCells, m \in CapacityCells}
    \cup SimWorkerPairs

Task3 == TaskRow(Str(<<"T", "3">>), Str(<<"C", "o", "d", "i", "n", "g">>), Str(<<"1">>), Undef)
Task4 == TaskRow(Str(<<>>), Undef, Str(<<"1">>), Undef)

\* a task that requires two skills
Task5 ==
    TaskRow(Str(<<"T", "5">>), Str(sCoding \o <<",", " ">> \o sDesign), Str(<<"1">>), Undef)

SimTaskLists ==
    {<<>>, <<Task1, Task2>>, <<Task1, Task2, Task3>>, <<Task2, Task4>>, <<Task5, Task1>>}

SimStores ==
    {[clients |-> <<Client0>>, workers |-> ws, tasks |-> ts] :
        ws \in SimWorkerLists \ SimWorkerPairs, ts \in SimTaskLists}
    \cup {[clients |-> <<Client0>>, workers |-> ws, tasks |-> <<Task1, Task2>>] :
            ws \in SimWorkerPairs}

CriteriaTexts ==
    {<<"f", "a", "i", "r">>, <<"c", "o", "s", "t">>, <<"p", "r", "i", "o", "r", "i", "t", "y">>,
     <<"l", "o", "w", " ", "c", "o", "s", "t", ",", " ", "f", "a", "i", "r", "n", "e", "s", "s">>,
     <<"F", "a", "i", "r">>, <<>>}

\* a rule as RuleBuilder builds it; id is the prefix and the Date.now() of
\* the rule id, tasks is parameters.tasks of a coRun rule
Rule(id, type, tasks, priority) ==
    [id |-> id, type |-> type, tasks |-> tasks, priority |-> priority]

\* the rule lists the simulator is called with
SimRuleLists ==
    {<<>>,
     <<Rule(<<"rule", 1>>, "coRun", <<Str(<<"T", "1">>), Str(<<"T", "3">>)>>, 1)>>,
     <<Rule(<<"rule", 1>>, "loadLimit", <<>>, 1),
       Rule(<<"rule", 2>>, "coRun", <<Str(<<"T", "1">>), Str(<<"T", "2">>)>>, 2)>>}

SimInit ==
    /\ data \in SimStores
    /\ validationResults = <<>>
    /\ isValidating = FALSE
    /\ passes = <<>>
    /\ timers = 0
    /\ lastFix = <<>>
    /\ applied = {}
    /\ published = <<>>
    /\ faulted = FALSE
    /\ midFixes = 0
    /\ sims = <<>>
    /\ optimized = <<>>
    /\ FixerUnused
    /\ PriorityUnused
    /\ rulesState \in SimRuleLists
    /\ RuleBuilderUnused

\* AllocationHeatmap: aiService.simulateAllocation(data, rules, priorities)
SimulateAllocationCall ==
    /\ \E draws \in Draws(data) :
          sims' = LastOf(sims)
                  \o <<simulateAllocation(data, rulesState, <<>>, draws)>>
    /\ optimized' = <<>>
    /\ UNCHANGED outsideSim

\* BeforeAfterComparison: aiService.optimizeAllocation(data, optimizationCriteria)
OptimizeAllocationCall ==
    /\ \E criteria \in CriteriaTexts, draws \in Draws(data) :
          optimized' = <<optimizeAllocation(data, criteria, draws)>>
    /\ sims' = <<>>
    /\ UNCHANGED outsideSim

SimNext == SimulateAllocationCall \/ OptimizeAllocationCall

SpecSim == SimInit /\ [][SimNext]_vars

(***************************************************************************)
(* SmartErrorFixer and AIService.generateAutoFixes.  An error is a record  *)
(* with a type and the fields generateAutoFixes reads for that type.       *)
(***************************************************************************)
\* generateAutoFixes: one fix per error of a known type, in the order of errors
generateAutoFixes(errs) ==
    FlatMap([k \in DOMAIN errs |->
               CASE errs[k].type = "missing_skill" ->
                      <<[type |-> "add_skill", action |-> "add_skill_to_worker",
                         params |-> [workerId |-> errs[k].suggestedWorker,
                                     skill |-> errs[k].skill]]>>
                 [] errs[k].type = "duplicate_id" ->
                      <<[type |-> "rename_id", action |-> "rename_entity_id",
                         params |-> [entityType |-> errs[k].entityType,
                                     oldId |-> errs[k].duplicateId,
                                     newId |-> errs[k].suggestedId]]>>
                 [] errs[k].type = "invalid_range" ->
                      <<[type |-> "correct_value", action |-> "correct_field_value",
                         params |-> [entityId |-> errs[k].entityId,
                                     field |-> errs[k].field,
                                     newValue |-> errs[k].suggestedValue]]>>
                 [] OTHER -> <<>>],
            Len(errs))

\* Array.prototype.join
RECURSIVE JoinChars(_, _)
JoinChars(parts, sep) ==
    IF parts = <<>> THEN <<>>
    ELSE IF Len(parts) = 1 THEN parts[1]
    ELSE parts[1] \o sep \o JoinChars(Tail(parts), sep)

\* findIndex: the position of the first row that passes the test, 0 for -1
FindIndex(items, Test(_)) ==
    LET hits == {i \in DOMAIN items : Test(items[i])}
    IN  IF hits = {} THEN 0 ELSE CHOOSE i \in hits : \A j \in hits : i <= j

\* addSkillToWorker raises: worker.Skills.split on a cell that is not a string
AddSkillRaises(store, params) ==
    LET IsWorker(w) == Get(w, "WorkerID") = params.workerId
        workerIndex == FindIndex(store.workers, IsWorker)
    IN  workerIndex # 0 /\ SplitRaises(Get(store.workers[workerIndex], "Skills"))

addSkillToWorker(store, params) ==
    LET IsWorker(w) == Get(w, "WorkerID") = params.workerId
        workerIndex == FindIndex(store.workers, IsWorker)
        worker == store.workers[workerIndex]
        currentSkills == IF Truthy(Get(worker, "Skills"))
                         THEN SplitTrim(StrChars(Get(worker, "Skills")))
                         ELSE <<>>
    IN  IF workerIndex = 0 THEN store
        ELSE IF \E k \in DOMAIN currentSkills : currentSkills[k] = TemplateChars(params.skill)
             THEN store
        ELSE [store EXCEPT !.workers[workerIndex] =
                Put(@, "Skills",
                    Str(JoinChars(Append(currentSkills, TemplateChars(params.skill)),
                                  <<",", " ">>)))]

\* entityMap and `${entityType.charAt(0).toUpperCase() + entityType.slice(1)}ID`
EntityArrayKey(entityType) ==
    CASE entityType = "client" -> "clients"
      [] entityType = "worker" -> "workers"
      [] entityType = "task" -> "tasks"
      [] OTHER -> "none"

EntityIdField(entityType) ==
    CASE entityType = "client" -> "ClientID"
      [] entityType = "worker" -> "WorkerID"
      [] OTHER -> "TaskID"

renameEntityId(store, params) ==
    LET arrayKey == EntityArrayKey(params.entityType)
        HasOldId(item) == Get(item, EntityIdField(params.entityType)) = params.oldId
        entityIndex == FindIndex(store[arrayKey], HasOldId)
    IN  IF arrayKey = "none" THEN store
        ELSE IF entityIndex = 0 THEN store
        ELSE [store EXCEPT ![arrayKey][entityIndex] =
                Put(@, EntityIdField(params.entityType), params.newId)]

\* correctFieldValue: in each collection, the first row one of whose values is
\* entityId gets field = newValue
correctFieldValue(store, params) ==
    LET HasValue(item) == \E f \in DOMAIN item : item[f] = params.entityId
    IN  [type \in DOMAIN store |->
            LET entityIndex == FindIndex(store[type], HasValue)
            IN  IF entityIndex = 0 THEN store[type]
                ELSE [store[type] EXCEPT ![entityIndex] =
                        Put(@, params.field, params.newValue)]]

\* the switch on fix.action raises
FixRaises(fix, store) ==
    fix.action = "add_skill_to_worker" /\ AddSkillRaises(store, fix.params)

\* the switch on fix.action
ApplyFixAction(fix, store) ==
    CASE fix.action = "add_skill_to_worker" -> addSkillToWorker(store, fix.params)
      [] fix.action = "rename_entity_id" -> renameEntityId(store, fix.params)
      [] fix.action = "correct_field_value" -> correctFieldValue(store, fix.params)
      [] OTHER -> store

\* a variant of ApplyFixesFrom: the try block is around the loop, and the
\* first fix that raises ends the batch
RECURSIVE ApplyFixesUntilFailure(_, _, _)
ApplyFixesUntilFailure(fixList, i, updatedData) ==
    IF i > Len(fixList) THEN updatedData
    ELSE IF FixRaises(fixList[i], updatedData) THEN updatedData
    ELSE ApplyFixesUntilFailure(fixList, i + 1, ApplyFixAction(fixList[i], updatedData))

\* the for loop of applyAllFixes from the i-th fix on: the try block is inside
\* the loop, a fix that raises leaves updatedData as it was
RECURSIVE ApplyFixesFrom(_, _, _)
ApplyFixesFrom(fixList, i, updatedData) ==
    IF i > Len(fixList) THEN updatedData
    ELSE ApplyFixesFrom(fixList, i + 1,
                        IF FixRaises(fixList[i], updatedData) THEN updatedData
                        ELSE ApplyFixAction(fixList[i], updatedData))

\* the stores the fixer is given: a worker whose Skills cell is a number, a
\* worker without skills, a client with an out-of-range priority
FixerStores ==
    {[clients |-> <<ClientRow(Str(<<"C", "1">>), Str(<<"9">>), Str(<<"T", "1">>), Undef)>>,
      workers |-> ws, tasks |-> <<Task1, Task2>>] :
        ws \in {<<WorkerRow(Str(sW1), Num(5), Num(2), Undef),
                  WorkerRow(Str(sW2), Str(sCoding), Num(2), Undef)>>,
                <<WorkerRow(Str(sW1), Str(sCoding), Num(2), Undef),
                  WorkerRow(Str(sW2), Undef, Num(2), Undef)>>,
                <<Worker0>>}}

FixerErrors ==
    {[type |-> "missing_skill", skill |-> Str(sDesign), suggestedWorker |-> Str(sW1)],
     [type |-> "missing_skill", skill |-> Str(sDesign), suggestedWorker |-> Str(sW2)],
     [type |-> "duplicate_id", entityType |-> "worker", duplicateId |-> Str(sW2),
      suggestedId |-> Str(sW2 \o <<"_", "2">>)],
     [type |-> "invalid_range", entityId |-> Str(<<"C", "1">>), field |-> "PriorityLevel",
      suggestedValue |-> Num(5)],
     [type |-> "invalid_range", entityId |-> Str(<<"C", "1">>), field |-> "PriorityLevel",
      suggestedValue |-> Num(3)],
     [type |-> "error"]}

\* the component is mounted with a store and a list of errors; its effect on
\* [errors] has called generateFixes when the list is not empty
FixerInit ==
    /\ data \in FixerStores
    /\ validationResults = <<>>
    /\ isValidating = FALSE
    /\ passes = <<>>
    /\ timers = 0
    /\ lastFix = <<>>
    /\ applied = {}
    /\ published = <<>>
    /\ faulted = FALSE
    /\ midFixes = 0
    /\ SimUnused
    /\ PriorityUnused
    /\ RulesUnused
    /\ errors \in SeqsUpTo(FixerErrors, MaxRows)
    /\ fixes = <<>>
    /\ applyingFix = "none"
    /\ fixerJobs = IF errors # <<>> THEN <<[kind |-> "generate"]>> ELSE <<>>
    /\ fixApplied = <<>>

\* generateFixes resumes: setFixes(generatedFixes)
GenerateFixesDone ==
    /\ fixerJobs # <<>>
    /\ fixerJobs[1].kind = "generate"
    /\ fixes' = generateAutoFixes(errors)
    /\ fixerJobs' = Tail(fixerJobs)
    /\ UNCHANGED <<errors, applyingFix, fixApplied>>
    /\ UNCHANGED outsideFixer

\* the Apply All Fixes button (rendered when fixes.length > 0, disabled while
\* applyingFix !== null): the loop runs, then the function waits 1500 ms
ApplyAllFixesClick ==
    /\ fixes # <<>>
    /\ applyingFix = "none"
    /\ applyingFix' = "all"
    /\ fixerJobs' = Append(fixerJobs,
                           [kind |-> "all", batch |-> fixes, before |-> data,
                            updatedData |-> ApplyFixesFrom(fixes, 1, data)])
    /\ UNCHANGED <<errors, fixes, fixApplied>>
    /\ UNCHANGED outsideFixer

\* applyAllFixes resumes: onFixApplied(updatedData), setFixes([]),
\* setApplyingFix(null)
ApplyAllFixesDone ==
    /\ \E j \in DOMAIN fixerJobs :
          /\ fixerJobs[j].kind = "all"
          /\ fixApplied' = <<[kind |-> "all", store |-> fixerJobs[j].updatedData,
                              batch |-> fixerJobs[j].batch,
                              before |-> fixerJobs[j].before]>>
          /\ fixerJobs' = RemoveAt(fixerJobs, j)
    /\ fixes' = <<>>
    /\ applyingFix' = "none"
    /\ UNCHANGED errors
    /\ UNCHANGED outsideFixer

\* the Apply button of the k-th fix: setApplyingFix(fix.type), then 1000 ms
ApplyFixClick(k) ==
    /\ k \in DOMAIN fixes
    /\ applyingFix = "none"
    /\ applyingFix' = fixes[k].type
    /\ fixerJobs' = Append(fixerJobs, [kind |-> "one", fix |-> fixes[k], at |-> k])
    /\ UNCHANGED <<errors, fixes, fixApplied>>
    /\ UNCHANGED outsideFixer

\* applyFix resumes: the fix is applied to a copy of data and that fix object
\* is filtered out of fixes; when it raises, the catch logs it and nothing is
\* handed on
ApplyFixDone ==
    /\ \E j \in DOMAIN fixerJobs :
          /\ fixerJobs[j].kind = "one"
          /\ IF FixRaises(fixerJobs[j].fix, data)
             THEN UNCHANGED <<fixes, fixApplied>>
             ELSE /\ fixApplied' = <<[kind |-> "one",
                                      store |-> ApplyFixAction(fixerJobs[j].fix, data),
                                      batch |-> <<fixerJobs[j].fix>>, before |-> data]>>
                  /\ fixes' = RemoveAt(fixes, fixerJobs[j].at)
          /\ fixerJobs' = RemoveAt(fixerJobs, j)
    /\ applyingFix' = "none"
    /\ UNCHANGED errors
    /\ UNCHANGED outsideFixer

FixerNext ==
    \/ GenerateFixesDone
    \/ ApplyAllFixesClick
    \/ ApplyAllFixesDone
    \/ \E k \in DOMAIN fixes : ApplyFixClick(k)
    \/ ApplyFixDone

SpecFixer == FixerInit /\ [][FixerNext]_vars

(***************************************************************************)
(* The PriorityConfig component under the page                             *)
(***************************************************************************)
\* the most onPrioritiesChange calls a behaviour makes
MaxChanges == 2

\* the steps of the page the behaviours move between: Priority Setup and
\* Preview & Export
PrioritySteps == {3, 4}

\* the values the sliders are moved to (min 0, max 100, step 5)
SliderValues == {0, 100}

PresetKeys ==
    {"maximize_fulfillment", "fair_distribution", "minimize_workload", "quality_focused"}

presets ==
    [key \in PresetKeys |->
        CASE key = "maximize_fulfillment" -> WeightsOf(<<95, 100, 60, 80, 70, 85, 90, 50>>)
          [] key = "fair_distribution" -> WeightsOf(<<70, 75, 100, 85, 80, 75, 80, 60>>)
          [] key = "minimize_workload" -> WeightsOf(<<80, 70, 90, 75, 85, 60, 85, 100>>)
          [] key = "quality_focused" -> WeightsOf(<<85, 80, 70, 100, 75, 70, 95, 55>>)]

\* items.splice(index, 0, item), index counted from 0
InsertAt(items, index, item) ==
    [k \in 1..(Len(items) + 1) |->
        IF k <= index THEN items[k]
        ELSE IF k = index + 1 THEN item ELSE items[k - 1]]

\* a variant of Reordered: the dragged item is inserted at the destination
\* and stays at the source too
ReorderedKeepingSource(items, source, destination) ==
    InsertAt(items, destination, items[source + 1])

\* onDragEnd's two splices: the item at source is taken out and put back at
\* destination, both indexes counted from 0
Reordered(items, source, destination) ==
    InsertAt(RemoveAt(items, source + 1), destination, items[source + 1])

\* the drop positions the drag library reports: an index of the list, or
\* none (-1) when the item is dropped outside the list
DropIndexes == 0..(Len(criteriaItems) - 1)
NoDestination == 0 - 1

PanelUnused ==
    /\ data = [clients |-> <<>>, workers |-> <<>>, tasks |-> <<>>]
    /\ validationResults = <<>>
    /\ isValidating = FALSE
    /\ passes = <<>>
    /\ timers = 0
    /\ lastFix = <<>>
    /\ applied = {}
    /\ published = <<>>
    /\ faulted = FALSE
    /\ midFixes = 0

\* the page shows step 3 and has just mounted PriorityConfig
PriorityInit ==
    /\ PanelUnused
    /\ SimUnused
    /\ FixerUnused
    /\ RulesUnused
    /\ currentStep = 3
    /\ prioritiesState = NoPriorities
    /\ criteriaOrder = MountedOrder
    /\ weights = MountedWeights(NoPriorities)
    /\ activePreset = MountedPreset
    /\ changes = 0

\* a step button of the page; entering step 3 mounts a new PriorityConfig
SetCurrentStep(step) ==
    /\ step # currentStep
    /\ currentStep' = step
    /\ IF step = 3
       THEN /\ criteriaOrder' = MountedOrder
            /\ weights' = MountedWeights(prioritiesState)
            /\ activePreset' = MountedPreset
       ELSE UNCHANGED <<criteriaOrder, weights, activePreset>>
    /\ UNCHANGED <<prioritiesState, changes>>
    /\ UNCHANGED outsidePriority

HandleWeightChange(criteriaId, value) ==
    /\ currentStep = 3
    /\ changes < MaxChanges
    /\ LET newWeights == [weights EXCEPT ![criteriaId] = Num(value)]
       IN  /\ weights' = newWeights
           /\ prioritiesState' = [weights |-> newWeights,
                             criteriaOrder |-> Arr(criteriaOrder),
                             activePreset |-> activePreset]
    /\ changes' = changes + 1
    /\ UNCHANGED <<currentStep, criteriaOrder, activePreset>>
    /\ UNCHANGED outsidePriority

ApplyPreset(presetKey) ==
    /\ currentStep = 3
    /\ changes < MaxChanges
    /\ weights' = presets[presetKey]
    /\ activePreset' = Str(<<presetKey>>)
    /\ prioritiesState' = [weights |-> presets[presetKey],
                      criteriaOrder |-> Arr(criteriaOrder),
                      activePreset |-> Str(<<presetKey>>)]
    /\ changes' = changes + 1
    /\ UNCHANGED <<currentStep, criteriaOrder>>
    /\ UNCHANGED outsidePriority

ResetToDefaults ==
    /\ currentStep = 3
    /\ changes < MaxChanges
    /\ LET defaultWeights == [id \in CriteriaIds |-> Num(50)]
       IN  /\ weights' = defaultWeights
           /\ activePreset' = Str(<<>>)
           /\ criteriaOrder' = criteriaItems
           /\ prioritiesState' = [weights |-> defaultWeights,
                             criteriaOrder |-> Arr(criteriaItems),
                             activePreset |-> Str(<<>>)]
    /\ changes' = changes + 1
    /\ UNCHANGED currentStep
    /\ UNCHANGED outsidePriority

OnDragEnd(source, destination) ==
    /\ currentStep = 3
    /\ changes < MaxChanges
    /\ IF destination = NoDestination
       THEN UNCHANGED <<criteriaOrder, prioritiesState, changes>>
       ELSE LET items == Reordered(criteriaOrder, source, destination)
            IN  /\ criteriaOrder' = items
                /\ prioritiesState' = [prioritiesState EXCEPT !.criteriaOrder = Arr(items)]
                /\ changes' = changes + 1
    /\ UNCHANGED <<currentStep, weights, activePreset>>
    /\ UNCHANGED outsidePriority

PriorityNext ==
    \/ \E step \in PrioritySteps : SetCurrentStep(step)
    \/ \E criteriaId \in CriteriaIds, value \in SliderValues :
           HandleWeightChange(criteriaId, value)
    \/ \E presetKey \in PresetKeys : ApplyPreset(presetKey)
    \/ ResetToDefaults
    \/ \E source \in DropIndexes, destination \in DropIndexes \cup {NoDestination} :
           OnDragEnd(source, destination)

SpecPriority == PriorityInit /\ [][PriorityNext]_vars

\* what exportRulesConfig writes for priorities.criteriaOrder || []
ExportedOrder(props) == Or(props.criteriaOrder, Arr(<<>>)).s

(***************************************************************************)
(* The RuleBuilder component under the page                                *)
(***************************************************************************)
\* the most rules a behaviour creates
MaxRules == 3

\* the values of ruleTypes, one card each
RuleTypeValues ==
    {"coRun", "slotRestriction", "loadLimit", "phaseWindow", "patternMatch",
     "precedenceOverride"}

\* the texts typed into the natural language box; none mentions a task
NLInputs ==
    {<<"C", "o", "-", "r", "u", "n">>, <<"m", "a", "x", " ", "l", "o", "a", "d", " ", "2">>,
     <<"o", "r", "d", "e", "r">>, <<"h", "i">>, <<" ">>}

\* the ruleType processNaturalLanguage derives from the lower-cased input
NLRuleType(input) ==
    IF \/ Includes(input, <<"r", "u", "n", " ", "t", "o", "g", "e", "t", "h", "e", "r">>)
       \/ Includes(input, <<"c", "o", "-", "r", "u", "n">>)
       \/ Includes(input, <<"s", "a", "m", "e", " ", "t", "i", "m", "e">>)
    THEN "coRun"
    ELSE IF \/ Includes(input, <<"l", "o", "a", "d", " ", "l", "i", "m", "i", "t">>)
            \/ Includes(input, <<"m", "a", "x", "i", "m", "u", "m", " ", "l", "o", "a", "d">>)
            \/ Includes(input, <<"m", "a", "x", " ", "l", "o", "a", "d">>)
    THEN "loadLimit"
    ELSE IF /\ Includes(input, <<"p", "h", "a", "s", "e">>)
            /\ \/ Includes(input, <<"o", "n", "l", "y">>)
               \/ Includes(input, <<"r", "e", "s", "t", "r", "i", "c", "t">>)
               \/ Includes(input, <<"w", "i", "n", "d", "o", "w">>)
    THEN "phaseWindow"
    ELSE IF \/ Includes(input, <<"p", "r", "i", "o", "r", "i", "t", "y">>)
            \/ Includes(input, <<"p", "r", "e", "c", "e", "d", "e", "n", "c", "e">>)
            \/ Includes(input, <<"o", "r", "d", "e", "r">>)
    THEN "precedenceOverride"
    ELSE IF Includes(input, <<"s", "l", "o", "t">>) /\ Includes(input, <<"c", "o", "m", "m", "o", "n">>)
    THEN "slotRestriction"
    ELSE "custom"

RuleIds(ruleList) == {ruleList[k].id : k \in DOMAIN ruleList}

\* rules.filter(rule => rule.id !== ruleId)
WithoutRule(ruleList, ruleId) ==
    SelectIdx(ruleList, [k \in DOMAIN ruleList |-> ruleList[k].id # ruleId], Len(ruleList))

\* RuleBuilder as the page mounts it, before any rule exists
RulesInit ==
    /\ PanelUnused
    /\ SimUnused
    /\ FixerUnused
    /\ PriorityUnused
    /\ RulesUnused

\* a card of the traditional rule builder: addRule(type.value)
AddRule(ruleType) ==
    /\ now + Len(nlCalls) < MaxRules
    /\ LET newRule == Rule(<<"rule", now + 1>>, ruleType, <<>>, Len(rulesState) + 1)
       IN  /\ rulesState' = rulesState \o <<newRule>>
           /\ nlCalls' = [c \in DOMAIN nlCalls |->
                             [nlCalls[c] EXCEPT !.added = @ \cup {newRule.id}]]
    /\ now' = now + 1
    /\ UNCHANGED <<naturalLanguageInput, isProcessingNL, lastNL>>
    /\ UNCHANGED outsideRules

\* the trash button of a listed rule
RemoveRule(ruleId) ==
    /\ ruleId \in RuleIds(rulesState)
    /\ rulesState' = WithoutRule(rulesState, ruleId)
    /\ nlCalls' = [c \in DOMAIN nlCalls |->
                      [nlCalls[c] EXCEPT !.added = @ \ {ruleId},
                                         !.removed = @ \cup {ruleId}]]
    /\ UNCHANGED <<naturalLanguageInput, isProcessingNL, now, lastNL>>
    /\ UNCHANGED outsideRules

SetNaturalLanguageInput(text) ==
    /\ text # naturalLanguageInput
    /\ naturalLanguageInput' = text
    /\ UNCHANGED <<rulesState, isProcessingNL, nlCalls, now, lastNL>>
    /\ UNCHANGED outsideRules

\* the Create Rule with AI button: processNaturalLanguage up to its await, with
\* the rules and the input of the render it was created in
ProcessNaturalLanguageClick ==
    /\ Trim(naturalLanguageInput) # <<>>
    /\ ~isProcessingNL
    /\ now + Len(nlCalls) < MaxRules
    /\ isProcessingNL' = TRUE
    /\ nlCalls' = Append(nlCalls, [rules |-> rulesState, input |-> naturalLanguageInput,
                                   added |-> {}, removed |-> {}])
    /\ UNCHANGED <<rulesState, naturalLanguageInput, now, lastNL>>
    /\ UNCHANGED outsideRules

\* processNaturalLanguage after its await
ProcessNaturalLanguageDone ==
    /\ nlCalls # <<>>
    /\ LET call == nlCalls[1]
           ruleType == NLRuleType(ToLowerCase(call.input))
           newRule == Rule(<<"rule_nl", now + 1>>, ruleType, <<>>, Len(call.rules) + 1)
       IN  /\ rulesState' = call.rules \o <<newRule>>
           /\ lastNL' = <<[added |-> call.added, removed |-> call.removed,
                           rules |-> call.rules \o <<newRule>>]>>
    /\ naturalLanguageInput' = <<>>
    /\ isProcessingNL' = FALSE
    /\ nlCalls' = Tail(nlCalls)
    /\ now' = now + 1
    /\ UNCHANGED outsideRules

RulesNext ==
    \/ \E ruleType \in RuleTypeValues : AddRule(ruleType)
    \/ \E ruleId \in RuleIds(rulesState) : RemoveRule(ruleId)
    \/ \E text \in NLInputs : SetNaturalLanguageInput(text)
    \/ ProcessNaturalLanguageClick
    \/ ProcessNaturalLanguageDone

SpecRules == RulesInit /\ [][RulesNext]_vars

(***************************************************************************)
(* The validation panel on its own                                         *)
(***************************************************************************)
Init == PanelInit /\ SimUnused /\ FixerUnused /\ PriorityUnused /\ RulesUnused

Next ==
    \/ \E p \in DOMAIN passes : ContinuePass(p)
    \/ \E p \in DOMAIN passes : CompletePass(p)
    \/ TimerFire
    \/ RunValidationClick
    \/ \E i \in DOMAIN validationResults : AutoFixIssue(i)
    \/ \E i \in DOMAIN validationResults : AutoFixIssueNotFixable(i)

Spec == Init /\ [][Next]_vars

(***************************************************************************)
(* The validation panel with fixes applied while a validation runs         *)
(***************************************************************************)
\* a duplicated task that a client requests, an out-of-range priority and a
\* broken JSON cell: one store for each branch of autoFixIssue
RaceStores ==
    {[clients |-> <<Client0>>, workers |-> <<Worker0>>, tasks |-> <<Task1, Task1>>],
     WithClients(<<ClientRow(Str(<<"C", "1">>), Str(<<"9">>), Str(<<"T", "1">>), Undef)>>),
     WithClients(<<ClientRow(Str(<<"C", "1">>), Str(<<"5">>), Str(<<"T", "1">>), Str(sBadJson))>>)}

RaceInit ==
    /\ PanelInit
    /\ data \in RaceStores
    /\ SimUnused
    /\ FixerUnused
    /\ PriorityUnused
    /\ RulesUnused

RaceNext ==
    \/ \E p \in DOMAIN passes : ContinuePass(p)
    \/ \E p \in DOMAIN passes : CompletePass(p)
    \/ TimerFire
    \/ RunValidationClick
    \/ \E i \in DOMAIN validationResults : AutoFixIssueDuringPass(i)

SpecRace == RaceInit /\ [][RaceNext]_vars

(***************************************************************************)
(* Properties                                                              *)
(***************************************************************************)
SameKey(f, g) ==
    f.category = g.category /\ f.entityId = g.entityId /\ f.field = g.field

Occurs(list, f) == \E k \in DOMAIN list : list[k] = f

\* the last autoFixIssue call fixed a finding that validating the store it was
\* given produces, and data is the store that call left
FixedFresh ==
    /\ lastFix # <<>>
    /\ lastFix[1].result.canAutoFix
    /\ Occurs(RunValidation(lastFix[1].before), lastFix[1].result)
    /\ data = AutoFixStore(lastFix[1].before, lastFix[1].result)

\* the displayed list is the validation of one store, and autoFixIssue has been
\* applied to every auto-fixable finding of it
FixPassDone ==
    /\ published # <<>>
    /\ validationResults = published[Len(published)].results
    /\ validationResults = RunValidation(published[Len(published)].store)
    /\ applied # {}
    /\ applied = {i \in DOMAIN validationResults : validationResults[i].canAutoFix}

\* C1: after autoFixIssue(f) on an auto-fixable finding f of a validation pass,
\* validating the resulting store yields no finding with f's
\* (category, entityId, field).
C1_FixThenValidate ==
    FixedFresh =>
        \A k \in DOMAIN RunValidation(data) :
            ~SameKey(RunValidation(data)[k], lastFix[1].result)

SharedKey(items, idField) ==
    \E i, j \in DOMAIN items :
        i # j /\ Truthy(Get(items[i], idField))
        /\ Get(items[i], idField) = Get(items[j], idField)

\* C2: after an auto-fix pass no two records of a collection have the same
\* primary key.
C2_UniqueAfterFixPass ==
    FixPassDone =>
        /\ ~SharedKey(data.clients, "ClientID")
        /\ ~SharedKey(data.workers, "WorkerID")
        /\ ~SharedKey(data.tasks, "TaskID")

\* the cell, when the row has one, reads as a number that is at least lo
CellAtLeast(v, lo) ==
    \/ v = Undef
    \/ v = Str(<<>>)
    \/ ParseInt(v) # NaN /\ lo <= ParseInt(v).n

\* the cell, when the row has one, reads as a number within lo..hi
CellInRange(v, lo, hi) ==
    \/ v = Undef
    \/ v = Str(<<>>)
    \/ ParseInt(v) # NaN /\ lo <= ParseInt(v).n /\ ParseInt(v).n <= hi

\* C3: after an auto-fix pass every client has PriorityLevel in [1,5], every
\* task Duration >= 1 and every worker MaxLoadPerPhase >= 1.
C3_RangeAfterFixPass ==
    FixPassDone =>
        /\ \A i \in DOMAIN data.clients :
              CellInRange(Get(data.clients[i], "PriorityLevel"), 1, 5)
        /\ \A i \in DOMAIN data.tasks :
              CellAtLeast(Get(data.tasks[i], "Duration"), 1)
        /\ \A i \in DOMAIN data.workers :
              CellAtLeast(Get(data.workers[i], "MaxLoadPerPhase"), 1)

\* C4: two validation runs on the same store, with no change of the store
\* between or during them, publish the same finding list.
C4_Idempotent ==
    (/\ Len(published) = 2
     /\ published[1].store = published[2].store
     /\ \A k \in 1..2 : published[k].seen = {published[k].store})
        => published[1].results = published[2].results

C4_Witness ==
    /\ Len(published) = 2
    /\ published[1].store = published[2].store
    /\ \A k \in 1..2 : published[k].seen = {published[k].store}
    /\ Len(published[2].results) >= 2
    /\ published[1].results = published[2].results

IsPrefix(a, b) == Len(a) <= Len(b) /\ SubSeq(b, 1, Len(a)) = a

C6_CapacityBound ==
    \A c \in DOMAIN sims : \A i \in DOMAIN data.workers :
        LET capacity == ToNumber(Get(data.workers[i], "MaxLoadPerPhase"))
        IN  (capacity # NaN /\ capacity.n >= 0) => sims[c][i].workload <= capacity.n

RECURSIVE SumSquares(_, _)
SumSquares(rs, n) ==
    IF n = 0 THEN 0 ELSE SumSquares(rs, n - 1) + rs[n].workload * rs[n].workload

\* Len(rs)^2 times the variance of the workloads of rs
ScaledVariance(rs) ==
    Len(rs) * SumSquares(rs, Len(rs)) - SumWorkload(rs, Len(rs)) * SumWorkload(rs, Len(rs))

\* C7: when the objective contains "fair", the variance of the workloads of
\* `after` is at most the variance of the workloads of `before`.
C7_FairVariance ==
    (optimized # <<>> /\ Includes(optimized[1].criteria, <<"f", "a", "i", "r">>)) =>
        /\ Len(optimized[1].after) = Len(optimized[1].before)
        /\ ScaledVariance(optimized[1].after) <= ScaledVariance(optimized[1].before)

C7_Witness ==
    /\ optimized # <<>>
    /\ Includes(optimized[1].criteria, <<"f", "a", "i", "r">>)
    /\ ScaledVariance(optimized[1].before) > 0
    /\ SumWorkload(optimized[1].before, Len(optimized[1].before)) >= 3

\* the end-to-end scenario: worker i has MaxLoadPerPhase 2 and, of the two
\* tasks T1 and T2 of the store, its skills cover T1 only
Scenario(i) ==
    /\ i \in DOMAIN data.workers
    /\ data.tasks = <<Task1, Task2>>
    /\ ToNumber(Get(data.workers[i], "MaxLoadPerPhase")) = Num(2)
    /\ CompatibleTasks(data.workers[i], data.tasks) = <<Task1>>

AssignedOnlyT1(r) ==
    /\ r.assignedTasks = <<Str(<<"T", "1">>)>>
    /\ r.workload = 1
    /\ r.efficiency = Rat(50, 1)
    /\ r.stress = "low"

AssignedNothing(r) ==
    /\ r.assignedTasks = <<>>
    /\ r.workload = 0
    /\ r.efficiency = Rat(0, 1)
    /\ r.stress = "low"

SkillsIn(v) ==
    IF v.t # "str" THEN {}
    ELSE {s \in {ToLowerCase(Trim(Split(v.s, ",")[k])) : k \in DOMAIN Split(v.s, ",")} :
             s # <<>>}

\* some worker of the store holds skill s
Held(store, s) ==
    \E w \in DOMAIN store.workers : s \in SkillsIn(Get(store.workers[w], "Skills"))

\* the entityId validation gives the i-th task
TaskEntityId(store, i) == Or(Get(store.tasks[i], "TaskID"), RowId(i - 1))

IsSkillFinding(f) == f.category = "Skill Coverage"

\* the displayed list was published by a pass over the store as it is now
Displayed ==
    /\ published # <<>>
    /\ published[Len(published)].store = data
    /\ published[Len(published)].seen = {data}
    /\ validationResults = published[Len(published)].results

\* C9: a Skill Coverage finding for task t and skill s is reported exactly when
\* s is a skill t requires that no worker holds; each is a warning that is not
\* auto-fixable; the end-to-end scenario has exactly one, for "design".
C9_SkillCoverage ==
    Displayed =>
        /\ \A k \in DOMAIN validationResults :
              IsSkillFinding(validationResults[k]) =>
                 /\ validationResults[k].type = "warning"
                 /\ ~validationResults[k].canAutoFix
                 /\ \E i \in DOMAIN data.tasks :
                       /\ validationResults[k].entityId = TaskEntityId(data, i)
                       /\ validationResults[k].message[2]
                              \in SkillsIn(Get(data.tasks[i], "RequiredSkills"))
                       /\ ~Held(data, validationResults[k].message[2])
        /\ \A i \in DOMAIN data.tasks :
              \A s \in SkillsIn(Get(data.tasks[i], "RequiredSkills")) :
                 ~Held(data, s) =>
                    \E k \in DOMAIN validationResults :
                       /\ IsSkillFinding(validationResults[k])
                       /\ validationResults[k].entityId = TaskEntityId(data, i)
                       /\ validationResults[k].message[2] = s
        /\ data = Store0 =>
              /\ Cardinality({k \in DOMAIN validationResults :
                                 IsSkillFinding(validationResults[k])}) = 1
              /\ \E k \in DOMAIN validationResults :
                    /\ IsSkillFinding(validationResults[k])
                    /\ validationResults[k].message[2] = sDesign

C9_Witness ==
    /\ Displayed
    /\ data = Store0
    /\ \E k \in DOMAIN validationResults :
          /\ IsSkillFinding(validationResults[k])
          /\ validationResults[k].entityId = Str(<<"T", "2">>)
          /\ validationResults[k].message[2] = sDesign

\* the positions of the rows of a collection that hold key x
Holders(items, idField, x) == {i \in DOMAIN items : Get(items[i], idField) = x}

\* the n-th smallest element of a set of positions
RECURSIVE Nth(_, _)
Nth(S, n) ==
    LET least == CHOOSE i \in S : \A j \in S : i <= j
    IN  IF n = 1 THEN least ELSE Nth(S \ {least}, n - 1)

\* every key held by two or more rows of a collection has a Duplicate ID
\* finding in the displayed list
DuplicatesReported ==
    Displayed =>
        \A e \in EntityTypes : \A i \in DOMAIN data[e] :
            LET x == Get(data[e][i], IdField(e))
            IN  (Truthy(x) /\ Cardinality(Holders(data[e], IdField(e), x)) >= 2) =>
                    \E k \in DOMAIN validationResults :
                        /\ validationResults[k].category = "Duplicate ID"
                        /\ validationResults[k].entityType = e
                        /\ validationResults[k].entityId = x
                        /\ validationResults[k].type = "error"
                        /\ validationResults[k].canAutoFix

FixedDuplicate == FixedFresh /\ lastFix[1].result.category = "Duplicate ID"

\* X_n as a key
Suffixed(x, n) == Str(x.s \o <<"_">> \o IntToString(n))

\* C10 as claimed: a key X held by two or more records gets a Duplicate ID
\* finding and, after autoFixIssue on it, the second occurrence of X has the
\* key X_2.
C10_SecondBecomesX2 ==
    /\ DuplicatesReported
    /\ FixedDuplicate =>
          LET e == lastFix[1].result.entityType
              x == lastFix[1].result.entityId
              second == Nth(Holders(lastFix[1].before[e], IdField(e), x), 2)
          IN  Get(data[e][second], IdField(e)) = Suffixed(x, 2)

\* C10, amended: a non-empty key X held by two or more records gets a
\* Duplicate ID finding and, after autoFixIssue on it, the second and every
\* later occurrence of X has the key X_p for its 1-based position p in the
\* collection.
C10_RenamedByPosition ==
    /\ DuplicatesReported
    /\ FixedDuplicate =>
          LET e == lastFix[1].result.entityType
              x == lastFix[1].result.entityId
              held == Holders(lastFix[1].before[e], IdField(e), x)
          IN  /\ Cardinality(held) >= 2
              /\ Len(data[e]) = Len(lastFix[1].before[e])
              /\ \A p \in held \ {Nth(held, 1)} :
                    Get(data[e][p], IdField(e)) = Suffixed(x, p)

C10_Witness ==
    /\ FixedDuplicate
    /\ LET e == lastFix[1].result.entityType
           x == lastFix[1].result.entityId
           second == Nth(Holders(lastFix[1].before[e], IdField(e), x), 2)
       IN  /\ second = 3
           /\ Get(data[e][second], IdField(e)) = Suffixed(x, 3)

\* C11: autoFixIssue on a Duplicate ID finding for key X renames every record
\* whose key is X except the first such record, which still has key X.
C11_FirstOccurrenceKept ==
    FixedDuplicate =>
        LET e == lastFix[1].result.entityType
            x == lastFix[1].result.entityId
            held == Holders(lastFix[1].before[e], IdField(e), x)
        IN  /\ Get(data[e][Nth(held, 1)], IdField(e)) = x
            /\ \A p \in held \ {Nth(held, 1)} : Get(data[e][p], IdField(e)) # x

FixedOutOfRange == FixedFresh /\ lastFix[1].result.category = "Out-of-range Value"

\* the nearest valid bound for a cell that parses, the default for one that
\* does not
NearestValid(field, v) ==
    LET parsed == ParseInt(v)
    IN  IF field = "PriorityLevel"
        THEN (IF parsed = NaN THEN Num(3)
              ELSE IF parsed.n < 1 THEN Num(1)
              ELSE IF parsed.n > 5 THEN Num(5) ELSE parsed)
        ELSE (IF parsed = NaN \/ parsed.n < 1 THEN Num(1) ELSE parsed)

\* C12: autoFixIssue on an Out-of-range Value finding sets the offending cell
\* to the nearest valid bound when it parses (PriorityLevel below 1 to 1 and
\* above 5 to 5, Duration and MaxLoadPerPhase below 1 to 1) and to the default
\* (3 for PriorityLevel, otherwise 1) when it does not.  Stated for the
\* findings whose entityId leads the fix to the offending row.
C12_ClampToNearestBound ==
    FixedOutOfRange =>
        LET e == lastFix[1].result.entityType
            field == lastFix[1].result.field
            row == lastFix[1].result.id[3] + 1
        IN  FindItem(lastFix[1].before[e], lastFix[1].result.entityId) = row =>
                Get(data[e][row], field)
                    = NearestValid(field, Get(lastFix[1].before[e][row], field))

\* the step is an autoFixIssue call with a finding that is not auto-fixable
RejectedCall ==
    /\ lastFix' # lastFix
    /\ lastFix' # <<>>
    /\ ~lastFix'[1].result.canAutoFix

\* C13: autoFixIssue called with a finding whose canAutoFix is false leaves
\* the three collections unchanged, does not call onDataChange (no effect
\* pass starts) and schedules no re-validation.
C13_NonFixableNoEffect ==
    [][RejectedCall =>
          /\ data' = data
          /\ lastFix'[1].before = data
          /\ passes' = passes
          /\ timers' = timers
          /\ isValidating' = isValidating]_vars

C13_Witness ==
    /\ lastFix # <<>>
    /\ lastFix[1].result.category = "Skill Coverage"
    /\ ~lastFix[1].result.canAutoFix
    /\ data = lastFix[1].before
    /\ Quiet

\* C14: autoFixIssue hands the fixed store to onDataChange as a new value and
\* leaves the store value it was given, its collections and their records,
\* as it was before the call.
C14_GivenStoreUntouched ==
    FixedFresh => lastFix[1].given = lastFix[1].before

\* C15: for every store, whatever the type of its cells, runValidation
\* completes with a finding list and raises no runtime fault.
C15_ValidationNeverThrows == ~faulted

\* the skills of the worker with the given id, as a set of trimmed entries
SkillsOfWorker(store, id) ==
    UNION {IF Get(store.workers[i], "WorkerID") = id /\ Get(store.workers[i], "Skills").t = "str"
           THEN {SplitTrim(Get(store.workers[i], "Skills").s)[k] :
                    k \in DOMAIN SplitTrim(Get(store.workers[i], "Skills").s)}
           ELSE {} : i \in DOMAIN store.workers}

\* onFixApplied has been handed the result of an applyAllFixes batch
AllApplied == fixApplied # <<>> /\ fixApplied[1].kind = "all"

\* the k-th fix of the batch adds a skill to a worker whose Skills cell can be
\* split, and no fix of the batch renames that worker
IndependentAddSkill(k) ==
    LET batch == fixApplied[1].batch
        before == fixApplied[1].before
    IN  /\ batch[k].action = "add_skill_to_worker"
        /\ \E i \in DOMAIN before.workers :
              Get(before.workers[i], "WorkerID") = batch[k].params.workerId
        /\ \A i \in DOMAIN before.workers :
              Get(before.workers[i], "WorkerID") = batch[k].params.workerId
                  => ~SplitRaises(Get(before.workers[i], "Skills"))
        /\ \A j \in DOMAIN batch :
              batch[j].action = "rename_entity_id" => batch[j].params.oldId # batch[k].params.workerId

\* the k-th fix is the last one of the batch that corrects this field of this entity
LastCorrection(k) ==
    LET batch == fixApplied[1].batch
    IN  /\ batch[k].action = "correct_field_value"
        /\ \A j \in (k + 1)..Len(batch) :
              batch[j].action = "correct_field_value"
                  => \/ batch[j].params.entityId # batch[k].params.entityId
                     \/ batch[j].params.field # batch[k].params.field

\* some fix of the batch raised when its turn came
SomeFixFailed ==
    \E k \in DOMAIN fixApplied[1].batch :
        FixRaises(fixApplied[1].batch[k], fixApplied[1].before)

\* C16: applyAllFixes applies the fixes in list order, a fix that raises does
\* not keep a later fix from being applied, and the store handed to
\* onFixApplied holds the effect of every fix that did not fail: the skill of
\* every independent add-skill fix, and for every corrected field the value of
\* the last correction in the list.
C16_FixAllOrderedAtomic ==
    AllApplied =>
        \A k \in DOMAIN fixApplied[1].batch :
            /\ IndependentAddSkill(k) =>
                  TemplateChars(fixApplied[1].batch[k].params.skill)
                      \in SkillsOfWorker(fixApplied[1].store, fixApplied[1].batch[k].params.workerId)
            /\ LastCorrection(k) =>
                  \A i \in DOMAIN fixApplied[1].store.clients :
                      Get(fixApplied[1].store.clients[i], "ClientID")
                              = fixApplied[1].batch[k].params.entityId
                          => Get(fixApplied[1].store.clients[i],
                                 fixApplied[1].batch[k].params.field)
                                 = fixApplied[1].batch[k].params.newValue

C16_Witness ==
    /\ AllApplied
    /\ Len(fixApplied[1].batch) = 3
    /\ FixRaises(fixApplied[1].batch[1], fixApplied[1].before)
    /\ IndependentAddSkill(2)
    /\ sDesign \in SkillsOfWorker(fixApplied[1].store, Str(sW2))
    /\ LastCorrection(3)
    /\ Get(fixApplied[1].store.clients[1], "PriorityLevel") = Num(5)

\* the position of a category in the order of checks the specification lists
CheckRank(category) ==
    CASE category = "Missing Required Column" -> 1
      [] category = "Duplicate ID" -> 2
      [] category = "Out-of-range Value" -> 3
      [] category = "Broken JSON" -> 4
      [] category = "Unknown Reference" -> 5
      [] category = "Skill Coverage" -> 6
      [] category = "AI Insight" -> 7

\* the step of runValidation that reports a category
StepRank(category) ==
    CASE category = "Missing Required Column" -> 1
      [] category = "Duplicate ID" -> 2
      [] category \in {"Out-of-range Value", "Broken JSON"} -> 3
      [] category = "Unknown Reference" -> 4
      [] category = "Skill Coverage" -> 5
      [] category = "AI Insight" -> 6

\* C17 as claimed: in every published finding list the categories come in the
\* order Missing Required Column, Duplicate ID, Out-of-range Value, Broken
\* JSON, Unknown Reference, Skill Coverage, AI Insight.
C17_SevenBlocks ==
    \A i, j \in DOMAIN validationResults :
        i < j => CheckRank(validationResults[i].category)
                     <= CheckRank(validationResults[j].category)

\* C17, amended: the categories come in the order of the six steps, with
\* Out-of-range Value and Broken JSON findings sharing the third block.
C17_SixBlocks ==
    \A i, j \in DOMAIN validationResults :
        i < j => StepRank(validationResults[i].category)
                     <= StepRank(validationResults[j].category)

C17_Witness ==
    \E i, j, k, l \in DOMAIN validationResults :
        /\ i < j /\ j < k /\ k < l
        /\ validationResults[i].category = "Duplicate ID"
        /\ validationResults[j].category = "Broken JSON"
        /\ validationResults[k].category = "Out-of-range Value"
        /\ validationResults[l].category = "Skill Coverage"

FixedReference == FixedFresh /\ lastFix[1].result.category = "Unknown Reference"

\* the ids a client row requests, as validateReferences reads them
RequestedOf(client) ==
    IF ~Truthy(Get(client, "RequestedTaskIDs")) THEN {}
    ELSE LET requestedTasks == SplitTrim(StrChars(Get(client, "RequestedTaskIDs")))
         IN  {requestedTasks[k] : k \in DOMAIN requestedTasks} \ {<<>>}

ExistingTaskIds(store) ==
    {StrChars(Get(store.tasks[j], "TaskID")) :
        j \in {i \in DOMAIN store.tasks : Truthy(Get(store.tasks[i], "TaskID"))}}

\* C18: after autoFixIssue on an Unknown Reference finding of client X, every
\* id left in X's RequestedTaskIDs is the TaskID of an existing task, and the
\* ids that resolved before the fix are still requested.
C18_DanglingIdsRemoved ==
    FixedReference =>
        LET row == FindItem(lastFix[1].before.clients, lastFix[1].result.entityId)
        IN  row # 0 =>
                /\ RequestedOf(data.clients[row]) \subseteq ExistingTaskIds(data)
                /\ RequestedOf(lastFix[1].before.clients[row])
                       \cap ExistingTaskIds(lastFix[1].before)
                     \subseteq RequestedOf(data.clients[row])

IsPermutationOfCriteria(order) ==
    /\ Len(order) = Len(criteriaItems)
    /\ \A id \in CriteriaIds : Cardinality({k \in DOMAIN order : order[k] = id}) = 1

\* C19: after any sequence of weight changes, preset applications, resets and
\* drag reorders, the criteriaOrder handed to onPrioritiesChange (and so the
\* one exportRulesConfig writes) holds each of the 8 criterion keys exactly once.
C19_OrderIsPermutation ==
    changes > 0 =>
        /\ prioritiesState.criteriaOrder.t = "arr"
        /\ IsPermutationOfCriteria(prioritiesState.criteriaOrder.s)
        /\ IsPermutationOfCriteria(ExportedOrder(prioritiesState))

\* a drag reorder and a preset application have both been published
C19_Witness ==
    /\ changes = MaxChanges
    /\ prioritiesState.criteriaOrder.t = "arr"
    /\ prioritiesState.criteriaOrder.s # criteriaItems
    /\ \E presetKey \in PresetKeys :
           /\ prioritiesState.activePreset = Str(<<presetKey>>)
           /\ prioritiesState.weights = presets[presetKey]

\* C20: a worker whose MaxLoadPerPhase is 0, or for whom no task is
\* compatible, gets workload 0, efficiency 0 and stress low from
\* simulateAllocation.
C20_ZeroCapacityOrCompatible ==
    \A c \in DOMAIN sims : \A i \in DOMAIN data.workers :
        (\/ ToNumber(Get(data.workers[i], "MaxLoadPerPhase")) = Num(0)
         \/ CompatibleTasks(data.workers[i], data.tasks) = <<>>)
            => /\ sims[c][i].workload = 0
               /\ sims[c][i].efficiency = Rat(0, 1)
               /\ sims[c][i].stress = "low"

\* the efficiency and stress the specification derives from a workload and a
\* numeric capacity
ClampedEfficiency(workload, capacity) ==
    IF workload = 0 THEN Rat(0, 1)
    ELSE IF capacity <= 0 THEN (IF capacity = 0 THEN Rat(100, 1) ELSE Rat(0, 1))
    ELSE IF workload >= capacity THEN Rat(100, 1)
    ELSE Rat(workload * 100, capacity)

StressLevel(workload, capacity) ==
    IF 10 * workload > 8 * capacity THEN "high"
    ELSE IF 10 * workload > 6 * capacity THEN "medium"
    ELSE "low"

\* C21: in every result of simulateAllocation, workload is the number of
\* assignedTasks, efficiency is workload / capacity * 100 clamped to [0,100],
\* and stress is high above 0.8 * capacity, medium above 0.6 * capacity, low
\* otherwise, where capacity is the worker's (numeric) MaxLoadPerPhase.
C21_DerivedMetrics ==
    \A c \in DOMAIN sims : \A i \in DOMAIN data.workers :
        LET capacity == ToNumber(Get(data.workers[i], "MaxLoadPerPhase"))
            r == sims[c][i]
        IN  (capacity # NaN /\ capacity.n >= 0) =>
                /\ r.workload = Len(r.assignedTasks)
                /\ r.workload > 0 =>
                       /\ r.efficiency = ClampedEfficiency(r.workload, capacity.n)
                       /\ r.stress = StressLevel(r.workload, capacity.n)

\* the key simulateTaskAssignment lists a task under
AssignedKey(task) == Or(Get(task, "TaskID"), Get(task, "TaskName"))

\* C22: every task in a worker's assignedTasks has a RequiredSkills set that
\* is a subset of that worker's lower-cased, trimmed skill set.
C22_OnlyCompatibleAssigned ==
    \A c \in DOMAIN sims : \A i \in DOMAIN data.workers :
        \A k \in DOMAIN sims[c][i].assignedTasks :
            \E j \in DOMAIN data.tasks :
                /\ AssignedKey(data.tasks[j]) = sims[c][i].assignedTasks[k]
                /\ SkillsIn(Get(data.tasks[j], "RequiredSkills"))
                       \subseteq SkillsIn(Get(data.workers[i], "Skills"))

\* a worker with two skills is assigned a task that requires both
C22_Witness ==
    \E c \in DOMAIN sims : \E i \in DOMAIN data.workers :
        /\ Cardinality(SkillsIn(Get(data.workers[i], "Skills"))) = 2
        /\ sims[c][i].assignedTasks # <<>>
        /\ \E j \in DOMAIN data.tasks :
               /\ AssignedKey(data.tasks[j]) = sims[c][i].assignedTasks[1]
               /\ Cardinality(SkillsIn(Get(data.tasks[j], "RequiredSkills"))) = 2

\* C23: for every coRun rule of the rule list and every worker, the
\* simulator assigns to that worker all of the rule's paired tasks or none.
C23_CoRunAllOrNone ==
    \A c \in DOMAIN sims : \A i \in DOMAIN sims[c] : \A r \in DOMAIN rulesState :
        rulesState[r].type = "coRun" =>
            LET assigned == {sims[c][i].assignedTasks[k] :
                                k \in DOMAIN sims[c][i].assignedTasks}
                paired == {rulesState[r].tasks[k] : k \in DOMAIN rulesState[r].tasks}
            IN  paired \subseteq assigned \/ paired \cap assigned = {}

\* C24: when the objective contains "cost" and not "fair", every worker's
\* workload after the optimization is at most the workload before it and the
\* efficiency after is at least the efficiency before.
C24_CostNeverRaisesWorkload ==
    (/\ optimized # <<>>
     /\ Includes(optimized[1].criteria, <<"c", "o", "s", "t">>)
     /\ ~Includes(optimized[1].criteria, <<"f", "a", "i", "r">>)) =>
        \A r \in DOMAIN optimized[1].before :
            /\ optimized[1].after[r].workload <= optimized[1].before[r].workload
            /\ ~optimized[1].before[r].efficiency.nan =>
                   RatLeq(optimized[1].before[r].efficiency, optimized[1].after[r].efficiency)

\* C25: the finding list a runValidation pass publishes is the validation of
\* one single store value, also when autoFixIssue is called while the pass is
\* between two of its steps.
C25_StableSnapshot ==
    \A k \in DOMAIN published :
        \E store \in published[k].seen : published[k].results = RunValidation(store)

\* C28: after the last auto-fix, once every runValidation pass in flight or
\* scheduled has finished, the displayed findings are the validation of the
\* current store.
C28_DisplayCatchesUp ==
    (lastFix # <<>> /\ Quiet /\ ~faulted) => validationResults = RunValidation(data)

\* a fix was applied while a pass was between two steps, and every pass has
\* finished since
C28_Witness ==
    /\ midFixes > 0
    /\ Quiet
    /\ lastFix[1].before # data
    /\ Len(published) = 2
    /\ validationResults = RunValidation(data)
    /\ validationResults # <<>>

\* C26: after autoFixIssue(f) on an auto-fixable finding f, the validation of
\* the store contains no error finding whose (category, entityId, field) was
\* absent from the validation before the fix.
C26_NoNewFindings ==
    FixedFresh =>
        LET before == RunValidation(lastFix[1].before)
            after == RunValidation(data)
        IN  \A k \in DOMAIN after :
                after[k].type = "error" =>
                    \E j \in DOMAIN before : SameKey(before[j], after[k])

\* the first auto-fixable finding of a validation, 0 when there is none
FirstFixable(results) ==
    IF \E i \in DOMAIN results : results[i].canAutoFix
    THEN CHOOSE i \in DOMAIN results :
             results[i].canAutoFix /\ \A j \in 1..(i - 1) : ~results[j].canAutoFix
    ELSE 0

\* one round of the loop: validate, fix the first auto-fixable finding
FixFirst(store) ==
    LET results == RunValidation(store)
    IN  IF FirstFixable(results) = 0 THEN store
        ELSE AutoFixStore(store, results[FirstFixable(results)])

\* the most rounds of the loop that are followed
MaxRounds == 6

\* the loop started on store ends within fuel rounds at a store without an
\* auto-fixable finding; a round that leaves the store as it was is repeated
\* forever, since the next round validates the same store
RECURSIVE LoopConverges(_, _)
LoopConverges(store, fuel) ==
    \/ FirstFixable(RunValidation(store)) = 0
    \/ /\ fuel > 0
       /\ FixFirst(store) # store
       /\ LoopConverges(FixFirst(store), fuel - 1)

\* the loop is stuck on store: its round changes nothing and a fixable finding
\* remains
LoopStuck(store) ==
    FirstFixable(RunValidation(store)) # 0 /\ FixFirst(store) = store

\* C27: from any store whose validation is displayed, repeatedly validating
\* and applying autoFixIssue to the first auto-fixable finding reaches a store
\* whose validation has no auto-fixable finding.
C27_LoopConverges == Displayed => LoopConverges(data, MaxRounds)

\* C29: in every priorities value PriorityConfig emits, if activePreset names
\* a preset then the 8 emitted weights are that preset's weights.
C29_PresetMatchesWeights ==
    changes > 0 =>
        \A presetKey \in PresetKeys :
            prioritiesState.activePreset = Str(<<presetKey>>)
                => prioritiesState.weights = presets[presetKey]

\* C30: a rule added with addRule, or removed with removeRule, while
\* processNaturalLanguage waits is present, respectively absent, in the rule
\* list after processNaturalLanguage has appended its own rule.
C30_NoLostRuleUpdate ==
    lastNL # <<>> =>
        /\ lastNL[1].added \subseteq RuleIds(lastNL[1].rules)
        /\ lastNL[1].removed \cap RuleIds(lastNL[1].rules) = {}

====
